---- MODULE Spec2Model ----
(***************************************************************************)
(* API reverse engineering: the analysis stage.                            *)
(*                                                                         *)
(* Two programs of the repository are modelled.                            *)
(*   - RequestAnalyzer / PatternDetector                                   *)
(*     (autonomous_projects/api_reverse_engineer/src/analyzer.py): a list  *)
(*     of captured calls is grouped into endpoints and analysed.           *)
(*   - TrafficParser (api_reverse_engineer/traffic_parser.py): requests    *)
(*     are processed one at a time into a dictionary of endpoints, whose   *)
(*     body schemas are folded with _merge_schemas.                        *)
(*                                                                         *)
(* Strings the code inspects character by character (paths, methods,       *)
(* endpoint keys) are sequences of one-character strings.  Python          *)
(* dictionaries are functions whose DOMAIN is the key set; where the code  *)
(* depends on insertion order the keys are kept in a sequence beside it.   *)
(***************************************************************************)
EXTENDS Integers, Sequences, FiniteSets, TLC

VARIABLES
    pool,             \* which family of captured traffic this run draws from
    calls,            \* analyzer: the list of APICall handed to analyze_calls
    phase,            \* analyzer: "capturing" | "analyzed"
    endpoint_groups,  \* analyzer: analyze_calls' local endpoint_groups
    apiSpec,          \* analyzer: what analyze_calls returned or raised
    sdks,             \* generators: what _generate_sdk returned or raised, by language
    endpoints,        \* parser: TrafficParser.endpoints
    base_url,         \* parser: TrafficParser.base_url (<<>> for None)
    hashOrder,        \* iteration order of a set of str in this process
    lastMerge,        \* parser: operands and result of the last _merge_schemas
    processed         \* parser: number of requests processed

vars == <<pool, calls, phase, endpoint_groups, apiSpec, sdks,
          endpoints, base_url, hashOrder, lastMerge, processed>>

analyzerVars == <<calls, phase, endpoint_groups, apiSpec, sdks>>
parserVars == <<endpoints, base_url, hashOrder, lastMerge, processed>>

----------------------------------------------------------------------------
(* Bounds *)

\* longest call list handed to analyze_calls in the grouping runs
MaxCalls == 3
\* largest group of calls of one endpoint in the query-parameter runs
MaxGroupCalls == 4
\* most requests one TrafficParser processes
MaxRequests == 3
\* calls captured before the analysis when their headers are counted
MaxHeaderCalls == 5

----------------------------------------------------------------------------
(* Characters and strings *)

Digits == {"0", "1", "2", "3", "4", "5", "6", "7", "8", "9"}
LowerHexLetters == {"a", "b", "c", "d", "e", "f"}
UpperHexLetters == {"A", "B", "C", "D", "E", "F"}
LowerLetters == {"a", "b", "c", "d", "e", "f", "g", "h", "i", "j", "k", "l", "m",
                 "n", "o", "p", "q", "r", "s", "t", "u", "v", "w", "x", "y", "z"}
UpperLetters == {"A", "B", "C", "D", "E", "F", "G", "H", "I", "J", "K", "L", "M",
                 "N", "O", "P", "Q", "R", "S", "T", "U", "V", "W", "X", "Y", "Z"}
\* [0-9a-f]
HexLower == Digits \cup LowerHexLetters
\* [0-9a-f] under re.IGNORECASE
HexAnyCase == HexLower \cup UpperHexLetters
\* [a-zA-Z0-9_-]
IdChars == LowerLetters \cup UpperLetters \cup Digits \cup {"_", "-"}

\* the number of consecutive characters of class S in s from position j on
RECURSIVE RunLen(_, _, _)
RunLen(s, j, S) ==
    IF j > Len(s) \/ j < 1 THEN 0
    ELSE IF s[j] \in S THEN 1 + RunLen(s, j + 1, S) ELSE 0

\* s[j .. j+35] has the shape 8-4-4-4-12 with characters of class H
UuidShapeAt(s, j, H) ==
    /\ j >= 1
    /\ j + 35 <= Len(s)
    /\ \A k \in 0..35 :
          IF k \in {8, 13, 18, 23} THEN s[j + k] = "-" ELSE s[j + k] \in H

\* str.split(sep) for a one-character separator
RECURSIVE SplitFrom(_, _, _, _)
SplitFrom(s, sep, i, cur) ==
    IF i > Len(s) THEN <<cur>>
    ELSE IF s[i] = sep THEN <<cur>> \o SplitFrom(s, sep, i + 1, <<>>)
    ELSE SplitFrom(s, sep, i + 1, Append(cur, s[i]))

Split(s, sep) == SplitFrom(s, sep, 1, <<>>)

\* sep.join(parts)
RECURSIVE Join(_, _)
Join(parts, sep) ==
    IF parts = <<>> THEN <<>>
    ELSE IF Len(parts) = 1 THEN parts[1]
    ELSE parts[1] \o <<sep>> \o Join(Tail(parts), sep)

\* the elements of a sequence
Range(s) == {s[i] : i \in 1..Len(s)}

\* str.lower() on the letters of the model's alphabet
UpperSeq == <<"A", "B", "C", "D", "E", "F", "G", "H", "I", "J", "K", "L", "M",
              "N", "O", "P", "Q", "R", "S", "T", "U", "V", "W", "X", "Y", "Z">>
LowerSeq == <<"a", "b", "c", "d", "e", "f", "g", "h", "i", "j", "k", "l", "m",
              "n", "o", "p", "q", "r", "s", "t", "u", "v", "w", "x", "y", "z">>
LowerChar(c) ==
    IF c \in UpperLetters
    THEN LowerSeq[CHOOSE k \in 1..Len(UpperSeq) : UpperSeq[k] = c]
    ELSE c
Lower(s) == [k \in 1..Len(s) |-> LowerChar(s[k])]

\* str.upper() on one character
UpperChar(c) ==
    IF c \in LowerLetters
    THEN UpperSeq[CHOOSE k \in 1..Len(LowerSeq) : LowerSeq[k] = c]
    ELSE c

\* str.title(): a letter that does not follow a letter is made upper case,
\* every other letter lower case
Title(s) ==
    [k \in 1..Len(s) |->
       IF k > 1 /\ s[k - 1] \in LowerLetters \cup UpperLetters THEN LowerChar(s[k])
       ELSE UpperChar(s[k])]

\* s.startswith(prefix)
StartsWith(s, prefix) ==
    Len(s) >= Len(prefix) /\ SubSeq(s, 1, Len(prefix)) = prefix

\* sub in s
Contains(s, sub) ==
    \E i \in 1..(Len(s) - Len(sub) + 1) : SubSeq(s, i, i + Len(sub) - 1) = sub

\* lst[:n]
Take(lst, n) == IF Len(lst) > n THEN SubSeq(lst, 1, n) ELSE lst

\* a dict without entries
EmptyDict == <<>>
\* dict.get(key, default)
Get(d, key, default) == IF key \in DOMAIN d THEN d[key] ELSE default
\* d[key] = value
Put(d, key, value) == (key :> value) @@ d

\* list(a set of str): the elements in this process's iteration order
ListOfSet(S) == SelectSeq(hashOrder, LAMBDA k : k \in S)

\* the text '/{id}' and the segment '{id}'
IdPlaceholder == <<"{", "i", "d", "}">>
SlashId == <<"/">> \o IdPlaceholder

----------------------------------------------------------------------------
(* Sample strings *)

SegUsers == <<"u", "s", "e", "r", "s">>
SegPosts == <<"p", "o", "s", "t", "s">>
Seg123 == <<"1", "2", "3">>
Seg456 == <<"4", "5", "6">>
Seg1a == <<"1", "a">>
Seg2a == <<"2", "a">>
UuidDigitFirst == <<"5","5","0","e","8","4","0","0","-","e","2","9","b","-","4","1","d","4","-","a","7","1","6","-","4","4","6","6","5","5","4","4","0","0","0","0">>
UuidLetterFirst == <<"a","5","0","e","8","4","0","0","-","e","2","9","b","-","4","1","d","4","-","a","7","1","6","-","4","4","6","6","5","5","4","4","0","0","0","0">>

MGet == <<"G", "E", "T">>
MPost == <<"P", "O", "S", "T">>
MTrace == <<"T", "R", "A", "C", "E">>

\* '/' + '/'.join(segs)
PathOf(segs) == <<"/">> \o Join(segs, "/")

----------------------------------------------------------------------------
(* PatternDetector._normalize_path *)

\* re.sub(r'/\d+', '/{id}', path), scanning from position i
RECURSIVE SubNumericFrom(_, _)
SubNumericFrom(path, i) ==
    IF i > Len(path) THEN <<>>
    ELSE LET n == RunLen(path, i + 1, Digits)
         IN IF path[i] = "/" /\ n > 0
            THEN SlashId \o SubNumericFrom(path, i + 1 + n)
            ELSE <<path[i]>> \o SubNumericFrom(path, i + 1)

\* re.sub(uuid_pattern, '/{id}', path, flags=re.IGNORECASE), from position i
RECURSIVE SubUuidFrom(_, _)
SubUuidFrom(path, i) ==
    IF i > Len(path) THEN <<>>
    ELSE IF path[i] = "/" /\ UuidShapeAt(path, i + 1, HexAnyCase)
         THEN SlashId \o SubUuidFrom(path, i + 37)
         ELSE <<path[i]>> \o SubUuidFrom(path, i + 1)

\* re.sub(r'/[a-zA-Z0-9_-]{20,}', '/{id}', path), from position i
RECURSIVE SubLongTokenFrom(_, _)
SubLongTokenFrom(path, i) ==
    IF i > Len(path) THEN <<>>
    ELSE LET n == RunLen(path, i + 1, IdChars)
         IN IF path[i] = "/" /\ n >= 20
            THEN SlashId \o SubLongTokenFrom(path, i + 1 + n)
            ELSE <<path[i]>> \o SubLongTokenFrom(path, i + 1)

normalize_path(path) ==
    SubLongTokenFrom(SubUuidFrom(SubNumericFrom(path, 1), 1), 1)

----------------------------------------------------------------------------
(* JSON values and message bodies *)

\* A decoded JSON value.  A scalar carries its JSON text, so that the example
\* of a schema is a string whatever the type; a dict carries its keys in
\* insertion order.
JNull == [t |-> "null"]
JBool(text) == [t |-> "bool", v |-> text]
JInt(text) == [t |-> "int", v |-> text]
JFloat(text) == [t |-> "float", v |-> text]
JStr(chars) == [t |-> "str", v |-> chars]
JList(items) == [t |-> "list", items |-> items]
JDict(keys, vals) == [t |-> "dict", keys |-> keys, vals |-> vals]

\* A body as a request or response dict holds it: a str of JSON text
\* ("text"), a str that is no JSON ("garbage"), or an already decoded value
\* ("object").
TextBody(value) == [kind |-> "text", json |-> value]
GarbageBody == [kind |-> "garbage"]
ObjectBody(value) == [kind |-> "object", json |-> value]

\* the JSON bodies of the samples
ValX == JStr(<<"X">>)
ValY == JStr(<<"Y">>)
Val5 == JInt(<<"5">>)
Val7 == JInt(<<"7">>)
BodyNameX == JDict(<<"name">>, [name |-> ValX])
BodyNameYAge5 == JDict(<<"name", "age">>, [name |-> ValY, age |-> Val5])
BodyName7 == JDict(<<"name">>, [name |-> Val7])
BodyAgeNull == JDict(<<"age">>, [age |-> JNull])
BodyNested5 == JDict(<<"name">>, [name |-> JDict(<<"age">>, [age |-> Val5])])
BodyNestedX == JDict(<<"name">>, [name |-> JDict(<<"age">>, [age |-> ValX])])
BodyList5 == JList(<<Val5>>)
BodyListX5 == JList(<<ValX, Val5>>)
BodyListObj == JList(<<BodyNameX, BodyNameYAge5>>)

----------------------------------------------------------------------------
(* Captured calls handed to RequestAnalyzer *)

\* a body of None and a body of ''
NoBody == [kind |-> "none"]
EmptyBody == [kind |-> "empty"]

\* an APICall: request method, URL path, query parameter names in dict order,
\* headers as (name, value) items in dict order and body, and the response
\* CapturedResponse(200, {}) without body and content type
OkResponse == [status_code |-> 200, content_type |-> "None", body |-> NoBody]
HeaderCall(m, p, q, h) ==
    [method |-> m, path |-> p, query |-> q, headers |-> h, body |-> NoBody,
     response |-> OkResponse]
Call(m, p, q) == HeaderCall(m, p, q, <<>>)

\* calls that differ in method and path
GroupingCalls ==
    { Call(MGet, PathOf(<<SegUsers>>), <<>>),
      Call(MPost, PathOf(<<SegUsers>>), <<>>),
      Call(MGet, PathOf(<<SegUsers, Seg123>>), <<>>),
      Call(MGet, PathOf(<<SegUsers, Seg456>>), <<>>),
      Call(MGet, PathOf(<<SegUsers, Seg123, SegPosts>>), <<>>),
      Call(MGet, PathOf(<<SegUsers, Seg1a>>), <<>>),
      Call(MGet, PathOf(<<SegUsers, Seg2a>>), <<>>),
      Call(MGet, PathOf(<<SegUsers, UuidDigitFirst>>), <<>>),
      Call(MGet, PathOf(<<SegUsers, UuidLetterFirst>>), <<>>),
      Call(MTrace, PathOf(<<SegUsers>>), <<>>) }

\* calls of one endpoint that differ in their query parameters
QueryCalls ==
    { Call(MGet, PathOf(<<SegUsers>>), q) :
        q \in {<<>>, <<"limit">>, <<"offset">>, <<"limit", "offset">>} }

\* header names and values of the samples
HAuthorization == <<"A", "u", "t", "h", "o", "r", "i", "z", "a", "t", "i", "o", "n">>
HAuthorizationLower == <<"a", "u", "t", "h", "o", "r", "i", "z", "a", "t", "i", "o", "n">>
HXApiKey == <<"X", "-", "A", "P", "I", "-", "K", "e", "y">>
HXAuthToken == <<"X", "-", "A", "u", "t", "h", "-", "T", "o", "k", "e", "n">>
BearerPrefix == <<"B", "e", "a", "r", "e", "r", " ">>
BasicPrefix == <<"B", "a", "s", "i", "c", " ">>
TokenAbc == <<"a", "b", "c", "1", "2", "3">>
TokenXyz == <<"x", "y", "z", "7", "8", "9">>
BasicCredentials == <<"d", "X", "N", "l", "c", "g", "=", "=">>
Secret123 == <<"s", "e", "c", "r", "e", "t", "1", "2", "3">>
Header(name, value) == [name |-> name, value |-> value]

\* calls of one endpoint that differ in their authentication headers
AuthCalls ==
    { HeaderCall(MGet, PathOf(<<SegUsers>>), <<>>, h) :
        h \in { <<>>,
                <<Header(HAuthorization, BearerPrefix \o TokenAbc)>>,
                <<Header(HAuthorizationLower, BearerPrefix \o TokenXyz)>>,
                <<Header(HAuthorization, BasicPrefix \o BasicCredentials)>>,
                <<Header(HXApiKey, Secret123)>>,
                <<Header(HXAuthToken, Secret123), Header(HXApiKey, Secret123)>> } }

\* calls whose paths end in resources of different spelling
NamingCalls ==
    { Call(MGet, PathOf(<<<<"u", "s", "e", "r", "P", "r", "o", "f", "i", "l", "e", "s">>>>), <<>>),
      Call(MPost, PathOf(<<<<"u", "s", "e", "r", "-", "p", "r", "o", "f", "i", "l", "e", "s">>>>), <<>>),
      Call(MGet, PathOf(<<SegUsers, Seg123, SegPosts>>), <<>>),
      Call(MGet, PathOf(<<SegUsers>>), <<>>),
      Call(MGet, PathOf(<<SegUsers, Seg123>>), <<>>),
      Call(MGet, PathOf(<<SegUsers, Seg123, SegPosts, Seg456>>), <<>>),
      Call(<<"H", "E", "A", "D">>, PathOf(<<<<"a", "p", "i">>, <<"v", "2", "b", "e", "t", "a">>>>), <<>>) }

\* calls whose method strings are and are not names of HTTPMethod
MethodCalls ==
    { Call(MGet, PathOf(<<SegUsers>>), <<>>),
      Call(MPost, PathOf(<<SegUsers, Seg123>>), <<>>),
      Call(<<"g", "e", "t">>, PathOf(<<SegUsers>>), <<>>),
      Call(<<"G", "E", "T", " ">>, PathOf(<<SegUsers>>), <<>>),
      Call(<<>>, PathOf(<<SegUsers>>), <<>>) }

\* calls of one endpoint that differ in their request bodies
BodyCall(body) == [Call(MPost, PathOf(<<SegUsers>>), <<>>) EXCEPT !.body = body]
RequestBodyCalls ==
    { BodyCall(body) :
        body \in {NoBody, EmptyBody, GarbageBody, TextBody(BodyNameX),
                  TextBody(BodyNameYAge5), TextBody(BodyList5)} }

\* calls of one endpoint that differ in their responses
ResponseCall(status_code, content_type, body) ==
    [Call(MGet, PathOf(<<SegUsers>>), <<>>) EXCEPT
       !.response = [status_code |-> status_code, content_type |-> content_type,
                     body |-> body]]
ResponseCalls ==
    { ResponseCall(200, "application/json", body) :
        body \in {TextBody(BodyNameX), TextBody(BodyNameYAge5), TextBody(BodyName7),
                  GarbageBody} }
    \cup { ResponseCall(404, "None", NoBody) }

\* calls of one endpoint that differ in their headers
HXTrace == <<"X", "-", "T", "r", "a", "c", "e">>
HeadersCalls ==
    { HeaderCall(MGet, PathOf(<<SegUsers>>), <<>>, h) :
        h \in { <<Header(<<"H", "o", "s", "t">>, TokenAbc), Header(HXTrace, TokenXyz)>>,
                <<Header(<<"A", "C", "C", "E", "P", "T">>, TokenAbc)>> } }

Pools == {"grouping", "query", "auth", "naming", "methods", "bodies", "responses", "headers"}
CallPool(pl) ==
    IF pl = "grouping" THEN GroupingCalls
    ELSE IF pl = "query" THEN QueryCalls
    ELSE IF pl = "auth" THEN AuthCalls
    ELSE IF pl = "naming" THEN NamingCalls
    ELSE IF pl = "methods" THEN MethodCalls
    ELSE IF pl = "bodies" THEN RequestBodyCalls
    ELSE IF pl = "responses" THEN ResponseCalls
    ELSE HeadersCalls
MaxCallsIn(pl) ==
    IF pl = "query" THEN MaxGroupCalls
    ELSE IF pl = "headers" THEN MaxHeaderCalls
    ELSE MaxCalls

\* the orders in which this process may iterate over a set of header values
HashOrders(pl) ==
    IF pl = "auth"
    THEN { <<TokenAbc, TokenXyz, Secret123>>, <<TokenXyz, TokenAbc, Secret123>> }
    ELSE { <<>> }

----------------------------------------------------------------------------
(* RequestAnalyzer *)

\* _normalize_path on every path a captured call can carry
NormalizedPath ==
    [p \in {c.path : c \in UNION {CallPool(pl) : pl \in Pools}}
       |-> normalize_path(p)]

\* f"{method} {normalized_path}"
endpoint_key(call) == call.method \o <<" ">> \o NormalizedPath[call.path]

\* the dict groups after the first n calls, as (key, calls) items in insertion
\* order; a call is named by its index in the list
RECURSIVE GroupFold(_, _)
GroupFold(cs, n) ==
    IF n = 0 THEN <<>>
    ELSE LET g == GroupFold(cs, n - 1)
             key == endpoint_key(cs[n])
             hit == {k \in 1..Len(g) : g[k].key = key}
         IN IF hit = {} THEN Append(g, [key |-> key, calls |-> <<n>>])
            ELSE [g EXCEPT ![CHOOSE k \in hit : TRUE].calls = Append(@, n)]

\* variant: every call opens a group of its own
group_by_endpoint_no_merge(cs) ==
    [k \in 1..Len(cs) |-> [key |-> endpoint_key(cs[k]), calls |-> <<k>>]]

\* variant: the dict is created anew for every call, so only the last call's
\* group is left
group_by_endpoint_reset(cs) ==
    IF cs = <<>> THEN <<>>
    ELSE <<[key |-> endpoint_key(cs[Len(cs)]), calls |-> <<Len(cs)>>]>>

group_by_endpoint(cs) == GroupFold(cs, Len(cs))

\* class HTTPMethod(Enum)
HTTPMethod == { <<"G", "E", "T">>, <<"P", "O", "S", "T">>, <<"P", "U", "T">>,
                <<"D", "E", "L", "E", "T", "E">>, <<"P", "A", "T", "C", "H">>,
                <<"H", "E", "A", "D">>, <<"O", "P", "T", "I", "O", "N", "S">> }

\* endpoint_key.split(' ', 1)
SplitKey(key) ==
    LET sp == {i \in 1..Len(key) : key[i] = " "}
    IN IF sp = {} THEN <<key>>
       ELSE LET i == CHOOSE i \in sp : \A j \in sp : i <= j
            IN <<SubSeq(key, 1, i - 1), SubSeq(key, i + 1, Len(key))>>

\* re.findall(r'\{(\w+)\}', path), scanning from position i
WordChars == LowerLetters \cup UpperLetters \cup Digits \cup {"_"}
RECURSIVE FindPlaceholdersFrom(_, _)
FindPlaceholdersFrom(path, i) ==
    IF i > Len(path) THEN <<>>
    ELSE LET n == RunLen(path, i + 1, WordChars)
         IN IF path[i] = "{" /\ n > 0 /\ i + n + 1 <= Len(path) /\ path[i + n + 1] = "}"
            THEN <<SubSeq(path, i + 1, i + n)>> \o FindPlaceholdersFrom(path, i + n + 2)
            ELSE FindPlaceholdersFrom(path, i + 1)

analyze_path_parameters(path) ==
    LET names == FindPlaceholdersFrom(path, 1)
    IN [k \in 1..Len(names) |->
          [name |-> names[k], type |-> "string", required |-> TRUE]]

\* the second loop over one call's query_params: every parameter of the call
\* gets total += 1 and required += 1, a new one starting from 0
RECURSIVE AddCallParams(_, _, _)
AddCallParams(stats, q, i) ==
    IF i > Len(q) THEN stats
    ELSE LET n == q[i]
             known == n \in DOMAIN stats.total
             req == IF known THEN stats.required[n] ELSE 0
             tot == IF known THEN stats.total[n] ELSE 0
         IN AddCallParams(
              [order |-> IF known THEN stats.order ELSE Append(stats.order, n),
               required |-> (n :> (req + 1)) @@ stats.required,
               total |-> (n :> (tot + 1)) @@ stats.total],
              q, i + 1)

\* one iteration of the loop over calls: first every parameter seen so far gets
\* total += 1, and required += 1 when this call carries it; then the call's own
\* parameters are added
QueryStatsStep(stats, q) ==
    AddCallParams(
      [order |-> stats.order,
       required |-> [n \in DOMAIN stats.required |->
                       IF n \in Range(q) THEN stats.required[n] + 1
                       ELSE stats.required[n]],
       total |-> [n \in DOMAIN stats.total |-> stats.total[n] + 1]],
      q, 1)

\* param_stats after the calls cs[idx[1]], ..., cs[idx[n]]
RECURSIVE QueryStats(_, _, _)
QueryStats(cs, idx, n) ==
    IF n = 0
    THEN [order |-> <<>>, required |-> [x \in {} |-> 0], total |-> [x \in {} |-> 0]]
    ELSE QueryStatsStep(QueryStats(cs, idx, n - 1), cs[idx[n]].query)

\* required = stats['required'] / len(calls) > 0.5
analyze_query_parameters(cs, idx) ==
    LET stats == QueryStats(cs, idx, Len(idx))
    IN [k \in 1..Len(stats.order) |->
          [name |-> stats.order[k],
           required |-> 2 * stats.required[stats.order[k]] > Len(idx)]]

\* response_groups after the calls cs[idx[1]], ..., cs[idx[n]]: the keys
\* (status_code, content_type or 'unknown') in insertion order, each with the
\* responses of its calls
RECURSIVE ResponseGroups(_, _, _)
ResponseGroups(cs, idx, n) ==
    IF n = 0 THEN <<>>
    ELSE LET g == ResponseGroups(cs, idx, n - 1)
             response == cs[idx[n]].response
             key == [status_code |-> response.status_code,
                     content_type |-> IF response.content_type = "None" THEN "unknown"
                                      ELSE response.content_type]
             hit == {k \in 1..Len(g) : g[k].key = key}
         IN IF hit = {} THEN Append(g, [key |-> key, response_list |-> <<response>>])
            ELSE [g EXCEPT ![CHOOSE k \in hit : TRUE].response_list = Append(@, response)]

\* TypeInferencer.infer_schema(data)
RECURSIVE infer_schema(_)
infer_schema(data) ==
    IF data.t = "null" THEN [type |-> "null"]
    ELSE IF data.t = "bool" THEN [type |-> "boolean"]
    ELSE IF data.t = "int" THEN [type |-> "integer"]
    ELSE IF data.t = "float" THEN [type |-> "number"]
    ELSE IF data.t = "str" THEN [type |-> "string"]
    ELSE IF data.t = "list"
    THEN IF data.items = <<>> THEN [type |-> "array", items |-> EmptyDict]
         ELSE [type |-> "array", items |-> infer_schema(data.items[1])]
    ELSE [type |-> "object",
          properties |-> [key \in Range(data.keys) |-> infer_schema(data.vals[key])]]

\* the values json.loads gave for the bodies that are truthy and parse, in
\* the order of the bodies
ParsedBodies(bodies) ==
    LET parsed == SelectSeq(bodies, LAMBDA body : body.kind = "text")
    IN [k \in 1..Len(parsed) |-> parsed[k].json]

\* _analyze_responses: one ResponseSchema per group; a response without a
\* body that parses adds neither a schema nor an example, and schema or {} is
\* {} when there was none
analyze_responses(cs, idx) ==
    LET groups == ResponseGroups(cs, idx, Len(idx))
    IN [k \in 1..Len(groups) |->
          LET examples == ParsedBodies([j \in 1..Len(groups[k].response_list) |->
                                          groups[k].response_list[j].body])
          IN [status_code |-> groups[k].key.status_code,
              content_type |-> groups[k].key.content_type,
              schema |-> IF examples = <<>> THEN EmptyDict
                         ELSE infer_schema(examples[1]),
              examples |-> Take(examples, 3)]]

\* the return value None
None == [none |-> TRUE]

\* variant: the schema of the last body that parses
analyze_request_body_last(cs, idx) ==
    LET bodies == ParsedBodies([k \in 1..Len(idx) |-> cs[idx[k]].body])
    IN IF bodies = <<>> THEN None ELSE infer_schema(bodies[Len(bodies)])

\* _analyze_request_body(calls)
analyze_request_body(cs, idx) ==
    LET bodies == ParsedBodies([k \in 1..Len(idx) |-> cs[idx[k]].body])
    IN IF bodies = <<>> THEN None ELSE infer_schema(bodies[1])

\* the headers _analyze_headers does not count
StandardHeaders == { <<"h", "o", "s", "t">>,
                     <<"u", "s", "e", "r", "-", "a", "g", "e", "n", "t">>,
                     <<"a", "c", "c", "e", "p", "t">>,
                     <<"c", "o", "n", "t", "e", "n", "t", "-", "l", "e", "n", "g", "t", "h">> }

\* the loop over one call's headers, from header i: header_stats as the keys
\* in insertion order and their counts
RECURSIVE CountHeaders(_, _, _)
CountHeaders(stats, headers, i) ==
    IF i > Len(headers) THEN stats
    ELSE LET header == headers[i].name
         IN CountHeaders(
              IF Lower(header) \in StandardHeaders THEN stats
              ELSE [order |-> IF header \in DOMAIN stats.count THEN stats.order
                              ELSE Append(stats.order, header),
                    count |-> Put(stats.count, header, Get(stats.count, header, 0) + 1)],
              headers, i + 1)

\* header_stats after the calls cs[idx[1]], ..., cs[idx[n]]
RECURSIVE HeaderStats(_, _, _)
HeaderStats(cs, idx, n) ==
    IF n = 0 THEN [order |-> <<>>, count |-> EmptyDict]
    ELSE CountHeaders(HeaderStats(cs, idx, n - 1), cs[idx[n]].headers, 1)

\* a Parameter of a declared header
HeaderParameter(header) == [name |-> header, type |-> "string", required |-> TRUE]

\* variant: a header in 80% of the calls is declared too
analyze_headers_at_least(cs, idx) ==
    LET stats == HeaderStats(cs, idx, Len(idx))
        declared == SelectSeq(stats.order,
                              LAMBDA header : 5 * stats.count[header] >= 4 * Len(idx))
    IN [k \in 1..Len(declared) |-> HeaderParameter(declared[k])]

\* _analyze_headers(calls): stats['count'] / len(calls) > 0.8
analyze_headers(cs, idx) ==
    LET stats == HeaderStats(cs, idx, Len(idx))
        declared == SelectSeq(stats.order,
                              LAMBDA header : 5 * stats.count[header] > 4 * Len(idx))
    IN [k \in 1..Len(declared) |-> HeaderParameter(declared[k])]

\* _analyze_endpoint; HTTPMethod(method_str) raises ValueError for a string that
\* is no member of the enumeration
analyze_endpoint(cs, group) ==
    LET parts == SplitKey(group.key)
    IN IF parts[1] \notin HTTPMethod
       THEN [kind |-> "error", error |-> "ValueError"]
       ELSE [kind |-> "endpoint",
             method |-> parts[1],
             path |-> parts[2],
             parameters |-> analyze_path_parameters(parts[2]),
             query_params |-> analyze_query_parameters(cs, group.calls),
             headers |-> analyze_headers(cs, group.calls),
             request_body |-> analyze_request_body(cs, group.calls),
             responses |-> analyze_responses(cs, group.calls)]

\* AuthPattern(type=..., header_name=..., token_prefix=..., examples=...);
\* parameter_name is never set
AuthPattern(type, header_name, token_prefix, examples) ==
    [type |-> type, header_name |-> header_name, parameter_name |-> "None",
     token_prefix |-> token_prefix, examples |-> examples]

\* header names that carry an API key
ApiKeyHeaders == { <<"x", "-", "a", "p", "i", "-", "k", "e", "y">>,
                   <<"a", "p", "i", "k", "e", "y">>,
                   <<"a", "p", "i", "-", "k", "e", "y">> }

\* detect_auth_patterns: the body of the loop over one call's headers, for
\* header i.  found holds auth_patterns, bearer_tokens, api_keys and
\* auth_headers (its keys in insertion order and its sets of values).
RECURSIVE AuthScanHeaders(_, _, _)
AuthScanHeaders(found, headers, i) ==
    IF i > Len(headers) THEN found
    ELSE LET header == headers[i].name
             value == headers[i].value
             header_lower == Lower(header)
             noted == [found EXCEPT
                         !.header_order = IF header \in DOMAIN found.auth_headers THEN @
                                          ELSE Append(@, header),
                         !.auth_headers = Put(@, header,
                                              Get(found.auth_headers, header, {}) \cup {value})]
         IN AuthScanHeaders(
              IF header_lower = <<"a", "u", "t", "h", "o", "r", "i", "z", "a", "t", "i", "o", "n">>
              THEN IF StartsWith(value, BearerPrefix)
                   THEN [found EXCEPT !.bearer_tokens = @ \cup {SubSeq(value, 8, Len(value))}]
                   ELSE IF StartsWith(value, BasicPrefix)
                   THEN [found EXCEPT
                           !.auth_patterns = Append(@, AuthPattern("basic_auth", HAuthorization,
                                                                   "Basic", <<>>))]
                   ELSE found
              ELSE IF header_lower \in ApiKeyHeaders
              THEN [noted EXCEPT !.api_keys = @ \cup {value}]
              ELSE IF Contains(header_lower, <<"t", "o", "k", "e", "n">>) \/ Contains(header_lower, <<"a", "u", "t", "h">>)
              THEN noted
              ELSE found,
              headers, i + 1)

\* detect_auth_patterns: what the loop over the first n calls has found
RECURSIVE AuthScan(_, _)
AuthScan(cs, n) ==
    IF n = 0
    THEN [auth_patterns |-> <<>>, bearer_tokens |-> {}, api_keys |-> {},
          header_order |-> <<>>, auth_headers |-> EmptyDict]
    ELSE AuthScanHeaders(AuthScan(cs, n - 1), cs[n].headers, 1)

\* one API_KEY pattern for every key of auth_headers, in insertion order, that
\* holds one of the api_keys
RECURSIVE ApiKeyPatterns(_, _)
ApiKeyPatterns(found, i) ==
    IF i > Len(found.header_order) THEN <<>>
    ELSE LET header == found.header_order[i]
             values == found.auth_headers[header]
         IN (IF values \cap found.api_keys # {}
             THEN <<AuthPattern("api_key", header, "None", Take(ListOfSet(values), 3))>>
             ELSE <<>>)
            \o ApiKeyPatterns(found, i + 1)

\* the patterns added after the loop
CreateAuthPatterns(found) ==
    found.auth_patterns
    \o (IF found.bearer_tokens # {}
        THEN <<AuthPattern("bearer_token", HAuthorization, "Bearer",
                           Take(ListOfSet(found.bearer_tokens), 3))>>
        ELSE <<>>)
    \o (IF found.api_keys # {} THEN ApiKeyPatterns(found, 1) ELSE <<>>)

\* variant: bearer tokens are not looked for
detect_auth_patterns_no_bearer(cs) ==
    LET found == AuthScan(cs, Len(cs))
    IN CreateAuthPatterns([found EXCEPT !.bearer_tokens = {}])

\* PatternDetector.detect_auth_patterns(calls)
detect_auth_patterns(cs) == CreateAuthPatterns(AuthScan(cs, Len(cs)))

\* variant: no check for an empty list
analyze_calls_unchecked(cs) ==
    LET groups == group_by_endpoint(cs)
        eps == [k \in 1..Len(groups) |-> analyze_endpoint(cs, groups[k])]
    IN IF \E k \in 1..Len(eps) : eps[k].kind = "error"
       THEN [kind |-> "error", error |-> "ValueError"]
       ELSE [kind |-> "spec", endpoints |-> eps,
                  auth_patterns |-> detect_auth_patterns(cs)]

\* analyze_calls: an empty list raises ValueError; otherwise one Endpoint per
\* group, in the order of the groups, unless building one of them raises
analyze_calls(cs) ==
    IF cs = <<>> THEN [kind |-> "error", error |-> "ValueError"]
    ELSE LET groups == group_by_endpoint(cs)
             eps == [k \in 1..Len(groups) |-> analyze_endpoint(cs, groups[k])]
         IN IF \E k \in 1..Len(eps) : eps[k].kind = "error"
            THEN [kind |-> "error", error |-> "ValueError"]
            ELSE [kind |-> "spec", endpoints |-> eps,
                  auth_patterns |-> detect_auth_patterns(cs)]

----------------------------------------------------------------------------
(* The document form of an APISpec *)

\* APISpec.to_dict(): of a Parameter its name, type, required (description
\* and example too), of a ResponseSchema its status_code, content_type and
\* schema, of an AuthPattern everything but its examples
to_dict(spec) ==
    [endpoints |->
       [k \in 1..Len(spec.endpoints) |->
          LET ep == spec.endpoints[k]
          IN [path |-> ep.path,
              method |-> ep.method,
              parameters |-> [j \in 1..Len(ep.parameters) |->
                                [f \in DOMAIN ep.parameters[j] \cap {"name", "type", "required"}
                                   |-> ep.parameters[j][f]]],
              query_params |-> [j \in 1..Len(ep.query_params) |->
                                  [f \in DOMAIN ep.query_params[j] \cap {"name", "type", "required"}
                                     |-> ep.query_params[j][f]]],
              responses |-> [j \in 1..Len(ep.responses) |->
                               [status_code |-> ep.responses[j].status_code,
                                content_type |-> ep.responses[j].content_type,
                                schema |-> ep.responses[j].schema]]]],
     auth_patterns |->
       [k \in 1..Len(spec.auth_patterns) |->
          [type |-> spec.auth_patterns[k].type,
           header_name |-> spec.auth_patterns[k].header_name,
           parameter_name |-> spec.auth_patterns[k].parameter_name,
           token_prefix |-> spec.auth_patterns[k].token_prefix]]]

\* APIReverseEngineerCLI._dict_to_api_spec(data): an Endpoint is built from
\* path and method (summary and description too) and keeps the defaults of its
\* other fields; the auth patterns of the document are not read.
\* HTTPMethod(ep_data['method']) raises ValueError for any other string.
dict_to_api_spec(data) ==
    LET eps == Get(data, "endpoints", <<>>)
    IN IF \E k \in 1..Len(eps) : eps[k].method \notin HTTPMethod
       THEN [kind |-> "error", error |-> "ValueError"]
       ELSE [kind |-> "spec",
             endpoints |-> [k \in 1..Len(eps) |->
                              [kind |-> "endpoint",
                               method |-> eps[k].method,
                               path |-> eps[k].path,
                               parameters |-> <<>>,
                               query_params |-> <<>>,
                               headers |-> <<>>,
                               request_body |-> None,
                               responses |-> <<>>]],
             auth_patterns |-> <<>>]

----------------------------------------------------------------------------
(* SDK generators *)

\* _sanitize_name(name)
sanitize_name(name) ==
    LET sanitized == [k \in 1..Len(name) |->
                        IF name[k] \in WordChars THEN name[k] ELSE "_"]
    IN IF sanitized = <<>> THEN <<"u", "n", "k", "n", "o", "w", "n">>
       ELSE IF sanitized[1] \in Digits THEN <<"_">> \o sanitized
       ELSE sanitized

\* method_prefixes.get(endpoint.method.value, endpoint.method.value.lower())
MethodPrefix(method) ==
    IF method = <<"G", "E", "T">> THEN <<"g", "e", "t">>
    ELSE IF method = <<"P", "O", "S", "T">> THEN <<"c", "r", "e", "a", "t", "e">>
    ELSE IF method = <<"P", "U", "T">> THEN <<"u", "p", "d", "a", "t", "e">>
    ELSE IF method = <<"D", "E", "L", "E", "T", "E">> THEN <<"d", "e", "l", "e", "t", "e">>
    ELSE IF method = <<"P", "A", "T", "C", "H">> THEN <<"p", "a", "t", "c", "h">>
    ELSE Lower(method)

\* BaseGenerator._get_method_name(endpoint)
get_method_name(endpoint) ==
    LET path_parts == SelectSeq(Split(endpoint.path, "/"),
                                LAMBDA part : part # <<>> /\ part[1] # "{")
        resource == IF path_parts # <<>> THEN path_parts[Len(path_parts)]
                    ELSE <<"r", "e", "s", "o", "u", "r", "c", "e">>
    IN sanitize_name(MethodPrefix(endpoint.method) \o <<"_">> \o resource)

\* variant: the components are joined as they are
camel_case_join_only(name) == SelectSeq(name, LAMBDA c : c # "_")

\* components[0] + ''.join(x.title() for x in components[1:])
RECURSIVE JoinTitled(_, _)
JoinTitled(components, i) ==
    IF i > Len(components) THEN <<>>
    ELSE (IF i = 1 THEN components[1] ELSE Title(components[i]))
         \o JoinTitled(components, i + 1)

\* TypeScriptGenerator._camel_case(name)
typescript_camel_case(name) == JoinTitled(Split(name, "_"), 1)

\* JavaScriptGenerator._camel_case(name)
javascript_camel_case(name) == JoinTitled(Split(name, "_"), 1)

\* variant: the type of the last pattern
get_auth_method_last(spec) ==
    IF spec.auth_patterns = <<>> THEN "none"
    ELSE spec.auth_patterns[Len(spec.auth_patterns)].type

\* BaseGenerator._get_auth_method()
get_auth_method(spec) ==
    IF spec.auth_patterns = <<>> THEN "none"
    ELSE spec.auth_patterns[1].type

\* _generate_auth_headers: the header the client sets on every request and
\* what it puts into it; no header without authentication.  For an API key
\* the name is auth_patterns[0].header_name or "X-API-Key".
generate_auth_headers(spec) ==
    LET auth_method == get_auth_method(spec)
    IN IF auth_method = "bearer_token"
       THEN [header |-> HAuthorization, value |-> "Bearer {token}"]
       ELSE IF auth_method = "api_key"
       THEN [header |-> IF spec.auth_patterns # <<>> /\ spec.auth_patterns[1].header_name # <<>>
                        THEN spec.auth_patterns[1].header_name
                        ELSE HXApiKey,
             value |-> "{api_key}"]
       ELSE IF auth_method = "basic_auth"
       THEN [header |-> HAuthorization, value |-> "Basic {username:password}"]
       ELSE [header |-> <<>>, value |-> "None"]

\* PythonGenerator: the parameters of __init__ (_generate_auth_init), the
\* header code and the name of the method of every endpoint
python_client(spec) ==
    LET auth_method == get_auth_method(spec)
    IN [auth_init |-> IF auth_method = "bearer_token" THEN <<"token">>
                      ELSE IF auth_method = "api_key" THEN <<"api_key">>
                      ELSE IF auth_method = "basic_auth" THEN <<"username", "password">>
                      ELSE <<>>,
        auth_headers |-> generate_auth_headers(spec),
        methods |-> [k \in 1..Len(spec.endpoints) |-> get_method_name(spec.endpoints[k])]]

\* TypeScriptGenerator: the fields of AuthConfig (_generate_config_interface),
\* the header code and the name of the method of every endpoint
typescript_client(spec) ==
    LET auth_method == get_auth_method(spec)
    IN [auth_init |-> IF auth_method = "bearer_token" THEN <<"token">>
                      ELSE IF auth_method = "api_key" THEN <<"apiKey">>
                      ELSE IF auth_method = "basic_auth" THEN <<"username", "password">>
                      ELSE <<>>,
        auth_headers |-> generate_auth_headers(spec),
        methods |-> [k \in 1..Len(spec.endpoints) |->
                       typescript_camel_case(get_method_name(spec.endpoints[k]))]]

\* JavaScriptGenerator: the fields of config read by the constructor
\* (_generate_auth_init), the header code and the name of the method of every
\* endpoint
javascript_client(spec) ==
    LET auth_method == get_auth_method(spec)
    IN [auth_init |-> IF auth_method = "bearer_token" THEN <<"token">>
                      ELSE IF auth_method = "api_key" THEN <<"apiKey">>
                      ELSE IF auth_method = "basic_auth" THEN <<"username", "password">>
                      ELSE <<>>,
        auth_headers |-> generate_auth_headers(spec),
        methods |-> [k \in 1..Len(spec.endpoints) |->
                       javascript_camel_case(get_method_name(spec.endpoints[k]))]]

\* the languages an SDK is asked for; "ruby" has no generator
Languages == {"python", "typescript", "javascript", "ruby"}

\* APIReverseEngineerCLI._generate_sdk(api_spec, language, output_dir)
generate_sdk(spec, language) ==
    IF language = "python" THEN [kind |-> "sdk", client |-> python_client(spec)]
    ELSE IF language = "typescript" THEN [kind |-> "sdk", client |-> typescript_client(spec)]
    ELSE IF language = "javascript" THEN [kind |-> "sdk", client |-> javascript_client(spec)]
    ELSE [kind |-> "error", error |-> "ValueError"]

----------------------------------------------------------------------------
(* The analyzer as a state machine: calls are captured, then analysed once *)

NoParserState ==
    /\ endpoints = <<>>
    /\ base_url = <<>>
    /\ lastMerge = [called |-> FALSE]
    /\ processed = 0

Init ==
    /\ pool \in Pools
    /\ calls = <<>>
    /\ phase = "capturing"
    /\ endpoint_groups = <<>>
    /\ apiSpec = [kind |-> "none"]
    /\ sdks = EmptyDict
    /\ hashOrder \in HashOrders(pool)
    /\ NoParserState

\* one more call is captured
Capture(c) ==
    /\ phase = "capturing"
    /\ Len(calls) < MaxCallsIn(pool)
    /\ calls' = Append(calls, c)
    /\ UNCHANGED <<pool, phase, endpoint_groups, apiSpec, sdks, parserVars>>

\* RequestAnalyzer.analyze_calls(calls)
AnalyzeCalls ==
    /\ phase = "capturing"
    /\ phase' = "analyzed"
    /\ endpoint_groups' = (IF calls = <<>> THEN <<>> ELSE group_by_endpoint(calls))
    /\ apiSpec' = analyze_calls(calls)
    /\ UNCHANGED <<pool, calls, sdks, parserVars>>

\* the loop over args.languages in cmd_analyze: one more SDK is generated
\* from the returned specification; an exception of _generate_sdk ends the
\* command
GenerateSdk(language) ==
    /\ phase = "analyzed"
    /\ apiSpec.kind = "spec"
    /\ language \notin DOMAIN sdks
    /\ \A l \in DOMAIN sdks : sdks[l].kind = "sdk"
    /\ sdks' = Put(sdks, language, generate_sdk(apiSpec, language))
    /\ UNCHANGED <<pool, calls, phase, endpoint_groups, apiSpec, parserVars>>

Next ==
    \/ \E c \in CallPool(pool) : Capture(c)
    \/ AnalyzeCalls
    \/ \E language \in Languages : GenerateSdk(language)

Spec == Init /\ [][Next]_vars

----------------------------------------------------------------------------
(* Vocabulary of the properties *)

Analyzed == phase = "analyzed"
ReturnedSpec == phase = "analyzed" /\ apiSpec.kind = "spec"

\* the (method, path) identity of an Endpoint
EndpointId(e) == <<e.method, e.path>>

\* the group of endpoint_groups that holds call number i
GroupOfCall(i) ==
    endpoint_groups[CHOOSE k \in 1..Len(endpoint_groups) :
                       i \in Range(endpoint_groups[k].calls)]

\* the segments of a path: the parts after each '/'
Segments(path) == Tail(Split(path, "/"))

IsNumericSeg(seg) == seg # <<>> /\ \A k \in 1..Len(seg) : seg[k] \in Digits
IsUuidSeg(seg) == Len(seg) = 36 /\ UuidShapeAt(seg, 1, HexAnyCase)
IsLongTokenSeg(seg) == Len(seg) >= 20 /\ \A k \in 1..Len(seg) : seg[k] \in IdChars
\* a segment of none of the three id classes the normalizer names
IsLiteralSeg(seg) == ~IsNumericSeg(seg) /\ ~IsUuidSeg(seg) /\ ~IsLongTokenSeg(seg)

\* the permutations of 1..n
Perms(n) == {f \in [1..n -> 1..n] : \A i, j \in 1..n : i # j => f[i] # f[j]}
Permuted(cs, f) == [k \in 1..Len(cs) |-> cs[f[k]]]

\* the keys of a grouping
GroupKeys(groups) == {groups[k].key : k \in 1..Len(groups)}

----------------------------------------------------------------------------
(* Properties of RequestAnalyzer *)

\* C1: the APISpec returned for a non-empty call list holds no two Endpoint
\* records with the same (method, path) pair, and exactly one Endpoint per
\* distinct endpoint key of the calls, however many calls share a key.
C1_UniqueEndpoints ==
    ReturnedSpec =>
        /\ \A i, j \in 1..Len(apiSpec.endpoints) :
              i # j => EndpointId(apiSpec.endpoints[i]) # EndpointId(apiSpec.endpoints[j])
        /\ Len(apiSpec.endpoints) =
              Cardinality({endpoint_key(calls[i]) : i \in 1..Len(calls)})

\* a spec was returned for three calls of which two share an endpoint
C1_Witness ==
    /\ ReturnedSpec
    /\ Len(calls) = 3
    /\ Len(apiSpec.endpoints) = 2

\* C2: analyze_calls on an empty call list raises an error, and no returned
\* APISpec has zero endpoints.
C2_EmptyCallsFail ==
    /\ (Analyzed /\ calls = <<>>) => apiSpec.kind = "error"
    /\ ReturnedSpec => Len(apiSpec.endpoints) > 0

\* the empty list has been analysed
C2_Witness == Analyzed /\ calls = <<>> /\ apiSpec.kind = "error"

\* two paths with the same number of segments that differ, if at all, only
\* where both have a purely numeric segment
DifferOnlyInNumericSegs(p, q) ==
    LET a == Segments(p)
        b == Segments(q)
    IN /\ Len(a) = Len(b)
       /\ \A k \in 1..Len(a) :
             a[k] = b[k] \/ (IsNumericSeg(a[k]) /\ IsNumericSeg(b[k]))

\* two paths with the same number of segments that differ in a segment which
\* is literal in at least one of them
DifferInLiteralSeg(p, q) ==
    LET a == Segments(p)
        b == Segments(q)
    IN /\ Len(a) = Len(b)
       /\ \E k \in 1..Len(a) :
             a[k] # b[k] /\ (IsLiteralSeg(a[k]) \/ IsLiteralSeg(b[k]))

\* C3: calls of one method whose paths differ only in the values of purely
\* numeric segments are in one group, whose key has {id} at those positions;
\* calls that differ in method or in a literal segment are in different groups.
C3_GroupingByNumericIds ==
    Analyzed =>
        \A i, j \in 1..Len(calls) :
            /\ ( /\ calls[i].method = calls[j].method
                 /\ DifferOnlyInNumericSegs(calls[i].path, calls[j].path) )
               => /\ GroupOfCall(i) = GroupOfCall(j)
                  /\ LET a == Segments(calls[i].path)
                         b == Segments(SplitKey(GroupOfCall(i).key)[2])
                     IN /\ Len(b) = Len(a)
                        /\ \A k \in 1..Len(a) : IsNumericSeg(a[k]) => b[k] = IdPlaceholder
            /\ ( \/ calls[i].method # calls[j].method
                 \/ DifferInLiteralSeg(calls[i].path, calls[j].path) )
               => GroupOfCall(i) # GroupOfCall(j)

\* C4: the set of endpoint keys does not depend on the order of the calls:
\* every permutation of the analysed list groups to the same keys, and
\* analyze_calls returns the same set of (method, path) identities for it.
\* Stated of the state analyze_calls leaves; generating SDKs afterwards
\* changes neither the calls nor the specification.
C4_OrderIndependentKeys ==
    (Analyzed /\ sdks = EmptyDict) =>
        \A f \in Perms(Len(calls)) :
            LET r == analyze_calls(Permuted(calls, f))
            IN /\ calls # <<>> =>
                    GroupKeys(group_by_endpoint(Permuted(calls, f))) = GroupKeys(endpoint_groups)
               /\ r.kind = apiSpec.kind
               /\ r.kind = "spec" =>
                    {EndpointId(e) : e \in Range(r.endpoints)} =
                    {EndpointId(e) : e \in Range(apiSpec.endpoints)}

\* three calls, the first and the last of one endpoint and another between
C4_Witness ==
    /\ ReturnedSpec
    /\ Len(calls) = 3
    /\ endpoint_key(calls[1]) = endpoint_key(calls[3])
    /\ endpoint_key(calls[1]) # endpoint_key(calls[2])
    /\ Len(apiSpec.endpoints) = 2

\* the number of calls of a group that carry the query parameter
CarryingCalls(group, name) ==
    Cardinality({k \in 1..Len(group.calls) : name \in Range(calls[group.calls[k]].query)})

\* C5: a query parameter of a group of N calls is marked required if and only
\* if it is carried by strictly more than half of the N calls.
C5_RequiredIffMajority ==
    ReturnedSpec =>
        \A g \in 1..Len(endpoint_groups) :
            \A k \in 1..Len(apiSpec.endpoints[g].query_params) :
                LET qp == apiSpec.endpoints[g].query_params[k]
                    group == endpoint_groups[g]
                IN qp.required <=> (2 * CarryingCalls(group, qp.name) > Len(group.calls))

\* a path with {id} in place of every canonical UUID segment
WithUuidAsId(p) ==
    LET a == Segments(p)
    IN PathOf([k \in 1..Len(a) |-> IF IsUuidSeg(a[k]) THEN IdPlaceholder ELSE a[k]])

\* C6: _normalize_path replaces every path segment that is a canonical UUID,
\* whatever its first character, by {id} and leaves nothing of the UUID: a
\* call to /users/<uuid> is grouped under /users/{id}.
C6_UuidBecomesId ==
    Analyzed =>
        \A i \in 1..Len(calls) :
            ( /\ \E k \in 1..Len(Segments(calls[i].path)) : IsUuidSeg(Segments(calls[i].path)[k])
              /\ \A k \in 1..Len(Segments(calls[i].path)) :
                    IsUuidSeg(Segments(calls[i].path)[k]) \/ IsLiteralSeg(Segments(calls[i].path)[k]) )
            => GroupOfCall(i).key = calls[i].method \o <<" ">> \o WithUuidAsId(calls[i].path)

\* the calls that carry an Authorization header whose value starts with
\* 'Bearer ' (header names are matched without regard to letter case)
BearerCalls ==
    { i \in 1..Len(calls) :
        \E k \in 1..Len(calls[i].headers) :
            /\ Lower(calls[i].headers[k].name) = Lower(HAuthorization)
            /\ StartsWith(calls[i].headers[k].value, BearerPrefix) }

\* the bearer-token patterns of the returned specification
BearerPatterns ==
    { k \in 1..Len(apiSpec.auth_patterns) : apiSpec.auth_patterns[k].type = "bearer_token" }

\* C12: detect_auth_patterns returns a bearer-token pattern with header name
\* 'Authorization' and prefix 'Bearer' when at least one call, not necessarily
\* all, carries 'Authorization: Bearer ...', and no bearer-token pattern when
\* no call does.
C12_BearerDetected ==
    ReturnedSpec =>
        /\ BearerCalls # {} =>
              \E k \in BearerPatterns :
                  /\ apiSpec.auth_patterns[k].header_name = HAuthorization
                  /\ apiSpec.auth_patterns[k].token_prefix = "Bearer"
        /\ BearerCalls = {} => BearerPatterns = {}

\* two of three calls carried a bearer token and the pattern was returned
C12_Witness ==
    /\ ReturnedSpec
    /\ Len(calls) = 3
    /\ Cardinality(BearerCalls) = 2
    /\ BearerPatterns # {}

\* C13: the auth patterns returned by detect_auth_patterns are pairwise
\* distinct: one pattern per mechanism (type, header name), however many calls
\* carry it; N Basic-auth calls give one basic-auth pattern.
C13_DistinctAuthPatterns ==
    ReturnedSpec =>
        \A j, k \in 1..Len(apiSpec.auth_patterns) :
            ( /\ apiSpec.auth_patterns[j].type = apiSpec.auth_patterns[k].type
              /\ apiSpec.auth_patterns[j].header_name = apiSpec.auth_patterns[k].header_name )
                => j = k

\* C14: an APISpec that analyze_calls returned is rebuilt unchanged from its
\* document: _dict_to_api_spec(spec.to_dict()) equals the spec, path
\* parameters, query parameters, responses and auth patterns included.
C14_SpecRoundTrip ==
    ReturnedSpec => dict_to_api_spec(to_dict(apiSpec)) = apiSpec

\* the clients generated so far
Generated == {l \in DOMAIN sdks : sdks[l].kind = "sdk"}

\* which of the four auth methods a client is wired for, judged by its
\* constructor parameters and the header it injects
WiringKind(client) ==
    IF client.auth_init = <<>> /\ client.auth_headers.value = "None" THEN "none"
    ELSE IF client.auth_init = <<"token">> /\ client.auth_headers.value = "Bearer {token}"
    THEN "bearer_token"
    ELSE IF client.auth_init \in {<<"api_key">>, <<"apiKey">>}
            /\ client.auth_headers.value = "{api_key}"
    THEN "api_key"
    ELSE IF client.auth_init = <<"username", "password">>
            /\ client.auth_headers.value = "Basic {username:password}"
    THEN "basic_auth"
    ELSE "mixed"

C17_DistinctErrorKinds ==
    \A l \in DOMAIN sdks :
        sdks[l].kind = "error" => sdks[l].error # analyze_calls(<<>>).error

\* the names that stand between braces in a path pattern
PlaceholderNames(path) == Range(FindPlaceholdersFrom(path, 1))

\* C26: the path parameters of every Endpoint are exactly the placeholder
\* names of its path pattern, one parameter per name and no two of the same
\* name, each typed string and required; a pattern without placeholder has no
\* path parameters.
C26_PathParameters ==
    ReturnedSpec =>
        \A k \in 1..Len(apiSpec.endpoints) :
            LET e == apiSpec.endpoints[k]
            IN /\ {e.parameters[j].name : j \in 1..Len(e.parameters)}
                    = PlaceholderNames(e.path)
               /\ Len(e.parameters) = Cardinality(PlaceholderNames(e.path))
               /\ \A j \in 1..Len(e.parameters) :
                     e.parameters[j].type = "string" /\ e.parameters[j].required

\* C29: within one generated client no two endpoints have the same method
\* name (GET /users and GET /users/{id} get different names).
C29_DistinctMethodNames ==
    \A l \in Generated :
        LET methods == sdks[l].client.methods
        IN \A i, j \in 1..Len(methods) : i # j => methods[i] # methods[j]

\* C30: every Endpoint of a returned APISpec has one of the seven methods of
\* HTTPMethod, and if any call's method string is not exactly one of these
\* upper-case names, analyze_calls fails with an error and returns no
\* specification, whatever the other calls are.
C30_MethodsValidated ==
    /\ ReturnedSpec =>
          \A k \in 1..Len(apiSpec.endpoints) : apiSpec.endpoints[k].method \in HTTPMethod
    /\ (Analyzed /\ \E i \in 1..Len(calls) : calls[i].method \notin HTTPMethod)
          => apiSpec.kind = "error"

\* the JSON payloads, in call order, of the k-th endpoint's calls whose
\* response falls into the group of the ResponseSchema r
GroupPayloads(k, r) ==
    LET mine == SelectSeq(endpoint_groups[k].calls,
                          LAMBDA i : /\ calls[i].response.status_code = r.status_code
                                     /\ (IF calls[i].response.content_type = "None"
                                         THEN "unknown"
                                         ELSE calls[i].response.content_type)
                                          = r.content_type)
    IN ParsedBodies([n \in 1..Len(mine) |-> calls[mine[n]].response.body])

\* C22: the schema reported for a (status code, content type) group unifies
\* the schemas of all JSON payloads of the group: a property of any payload,
\* the second or a later one too, is a property of the schema, and a property
\* whose type differs between two payloads is widened to any.
C22_ResponsesUnified ==
    ReturnedSpec =>
        \A k \in 1..Len(apiSpec.endpoints) :
            \A j \in 1..Len(apiSpec.endpoints[k].responses) :
                LET r == apiSpec.endpoints[k].responses[j]
                    payloads == GroupPayloads(k, r)
                    objects == SelectSeq(payloads, LAMBDA v : v.t = "dict")
                IN \A a, b \in 1..Len(objects) :
                      \A key \in Range(objects[a].keys) :
                         /\ key \in DOMAIN r.schema.properties
                         /\ ( /\ key \in Range(objects[b].keys)
                              /\ infer_schema(objects[a].vals[key]).type
                                   # infer_schema(objects[b].vals[key]).type )
                            => r.schema.properties[key].type = "any"

\* the number of calls of the k-th endpoint that carry a header of this name
CallsWithHeader(k, name) ==
    Cardinality({n \in 1..Len(endpoint_groups[k].calls) :
                    \E h \in 1..Len(calls[endpoint_groups[k].calls[n]].headers) :
                        calls[endpoint_groups[k].calls[n]].headers[h].name = name})

\* C23: a header is declared a required header of an endpoint only if it is
\* present in strictly more than 80% of the endpoint's calls, and host,
\* user-agent, accept and content-length are never declared, in any letter
\* case and at any frequency.
C23_HeaderThreshold ==
    ReturnedSpec =>
        \A k \in 1..Len(apiSpec.endpoints) :
            \A j \in 1..Len(apiSpec.endpoints[k].headers) :
                LET name == apiSpec.endpoints[k].headers[j].name
                IN /\ 5 * CallsWithHeader(k, name) > 4 * Len(endpoint_groups[k].calls)
                   /\ Lower(name) \notin StandardHeaders

\* five calls of one endpoint were analysed, four of them with X-Trace and
\* one of these with Host too, and no header is declared
C23_Witness ==
    /\ ReturnedSpec
    /\ Len(calls) = 5
    /\ Len(apiSpec.endpoints) = 1
    /\ CallsWithHeader(1, HXTrace) = 4
    /\ CallsWithHeader(1, <<"H", "o", "s", "t">>) >= 1
    /\ apiSpec.endpoints[1].headers = <<>>

\* the request bodies of the k-th endpoint's calls that parse as JSON, in call
\* order
ParsedRequestBodies(k) ==
    LET idx == SelectSeq(endpoint_groups[k].calls, LAMBDA i : calls[i].body.kind = "text")
    IN [n \in 1..Len(idx) |-> calls[idx[n]].body.json]

\* C24: request bodies that are absent or do not parse as JSON are skipped and
\* the analysis returns its specification; an endpoint's request-body schema is
\* the one inferred from the first body, in call order, that parses, and it is
\* None when no body of the endpoint parses.
C24_FirstParsedBody ==
    (Analyzed /\ calls # <<>> /\ \A i \in 1..Len(calls) : calls[i].method \in HTTPMethod)
        => /\ apiSpec.kind = "spec"
           /\ \A k \in 1..Len(apiSpec.endpoints) :
                 apiSpec.endpoints[k].request_body
                    = IF ParsedRequestBodies(k) = <<>> THEN None
                      ELSE infer_schema(ParsedRequestBodies(k)[1])

\* a body that does not parse was followed by {"name": "X"} and then by
\* {"name": "Y", "age": 5}, and the schema has the property name only
C24_Witness ==
    /\ ReturnedSpec
    /\ Len(calls) = 3
    /\ calls[1].body = GarbageBody
    /\ calls[2].body = TextBody(BodyNameX)
    /\ calls[3].body = TextBody(BodyNameYAge5)
    /\ Len(apiSpec.endpoints) = 1
    /\ DOMAIN apiSpec.endpoints[1].request_body.properties = {"name"}

----------------------------------------------------------------------------
(* TrafficParser: path patterns *)

\* '{' + name + '}'
Braced(name) == <<"{">> \o name \o <<"}">>

\* list.index(x): the first position of x, counted from 1 here
IndexOf(seq, x) == CHOOSE k \in 1..Len(seq) : seq[k] = x /\ \A j \in 1..(k - 1) : seq[j] # x

\* _generate_param_name(segments, index), index counted from 1 here
generate_param_name(segments, index) ==
    IF index > 1 /\ segments[index - 1] # <<>> /\ segments[index - 1][1] # "{"
    THEN segments[index - 1] \o <<"I", "d">>
    ELSE IF index < Len(segments) /\ segments[index + 1] # <<>>
                                  /\ segments[index + 1][1] # "{"
         THEN segments[index + 1] \o <<"I", "d">>
         ELSE <<"i", "d">>

\* the parameter name the loop body of _extract_path_pattern gives a segment,
\* <<>> when the segment is kept as it is
SegmentParam(segments, segment) ==
    IF segment = <<>> THEN <<>>
    ELSE IF \A k \in 1..Len(segment) : segment[k] \in Digits THEN <<"i", "d">>
    ELSE IF Len(segment) = 36 /\ UuidShapeAt(Lower(segment), 1, HexLower)
         THEN <<"u", "u", "i", "d">>
    ELSE IF Len(segment) = 24 /\ \A k \in 1..24 : segment[k] \in HexLower
         THEN <<"o", "b", "j", "e", "c", "t", "I", "d">>
    ELSE IF (\E k \in 1..Len(segment) : segment[k] \in Digits) /\ Len(segment) > 5
         THEN generate_param_name(segments, IndexOf(segments, segment))
    ELSE <<>>

\* _extract_path_pattern(path): the pattern and the set of parameter names
extract_path_pattern(path) ==
    LET segments == Split(path, "/")
        param == [k \in 1..Len(segments) |-> SegmentParam(segments, segments[k])]
    IN [pattern |-> Join([k \in 1..Len(segments) |->
                            IF param[k] = <<>> THEN segments[k] ELSE Braced(param[k])],
                         "/"),
        params |-> {param[k] : k \in 1..Len(segments)} \ {<<>>}]

----------------------------------------------------------------------------
(* TrafficParser: JSON values and schemas *)


AnySchema == [type |-> "any"]
\* a KeyError raised by schema1['type']
KeyError == [error |-> "KeyError"]
IsError(r) == "error" \in DOMAIN r

\* variant: a property of only one operand is carried over as it is
RECURSIVE merge_schemas_no_nullable(_, _)
merge_schemas_no_nullable(schema1, schema2) ==
    IF Get(schema1, "type", "None") # Get(schema2, "type", "None") THEN AnySchema
    ELSE IF schema1.type = "object"
    THEN LET props1 == Get(schema1, "properties", EmptyDict)
             props2 == Get(schema2, "properties", EmptyDict)
         IN [type |-> "object",
             properties |-> [prop \in DOMAIN props1 \cup DOMAIN props2 |->
                               IF prop \in DOMAIN props1 /\ prop \in DOMAIN props2
                               THEN merge_schemas_no_nullable(props1[prop], props2[prop])
                               ELSE IF prop \in DOMAIN props1 THEN props1[prop]
                               ELSE props2[prop]],
             required |-> ListOfSet(Range(Get(schema1, "required", <<>>))
                                      \cap Range(Get(schema2, "required", <<>>)))]
    ELSE IF schema1.type = "array"
    THEN [type |-> "array",
          items |-> IF "items" \in DOMAIN schema1 /\ "items" \in DOMAIN schema2
                    THEN merge_schemas_no_nullable(schema1.items, schema2.items)
                    ELSE Get(schema1, "items", AnySchema)]
    ELSE [type |-> schema1.type]

\* variant: on different type tags the left operand wins
RECURSIVE merge_schemas_left_wins(_, _)
merge_schemas_left_wins(schema1, schema2) ==
    IF Get(schema1, "type", "None") # Get(schema2, "type", "None") THEN schema1
    ELSE IF schema1.type = "object"
    THEN LET props1 == Get(schema1, "properties", EmptyDict)
             props2 == Get(schema2, "properties", EmptyDict)
         IN [type |-> "object",
             properties |-> [prop \in DOMAIN props1 \cup DOMAIN props2 |->
                               IF prop \in DOMAIN props1 /\ prop \in DOMAIN props2
                               THEN merge_schemas_left_wins(props1[prop], props2[prop])
                               ELSE IF prop \in DOMAIN props1
                               THEN Put(props1[prop], "nullable", TRUE)
                               ELSE Put(props2[prop], "nullable", TRUE)],
             required |-> ListOfSet(Range(Get(schema1, "required", <<>>))
                                      \cap Range(Get(schema2, "required", <<>>)))]
    ELSE IF schema1.type = "array"
    THEN [type |-> "array",
          items |-> IF "items" \in DOMAIN schema1 /\ "items" \in DOMAIN schema2
                    THEN merge_schemas_left_wins(schema1.items, schema2.items)
                    ELSE Get(schema1, "items", AnySchema)]
    ELSE [type |-> schema1.type]

\* _merge_schemas(schema1, schema2).  The code marks a carried-over property
\* nullable in place, in the operand's own property dict; the operands it is
\* called with here are not read again afterwards, so only the result is kept.
\* An exception in a nested call leaves the whole call.
RECURSIVE merge_schemas(_, _)
merge_schemas(schema1, schema2) ==
    IF Get(schema1, "type", "None") # Get(schema2, "type", "None") THEN AnySchema
    ELSE IF "type" \notin DOMAIN schema1 THEN KeyError
    ELSE IF schema1.type = "object"
    THEN LET props1 == Get(schema1, "properties", EmptyDict)
             props2 == Get(schema2, "properties", EmptyDict)
             props == [prop \in DOMAIN props1 \cup DOMAIN props2 |->
                         IF prop \in DOMAIN props1 /\ prop \in DOMAIN props2
                         THEN merge_schemas(props1[prop], props2[prop])
                         ELSE IF prop \in DOMAIN props1
                         THEN Put(props1[prop], "nullable", TRUE)
                         ELSE Put(props2[prop], "nullable", TRUE)]
         IN IF \E prop \in DOMAIN props : IsError(props[prop]) THEN KeyError
            ELSE [type |-> "object",
                  properties |-> props,
                  required |-> ListOfSet(Range(Get(schema1, "required", <<>>))
                                           \cap Range(Get(schema2, "required", <<>>)))]
    ELSE IF schema1.type = "array"
    THEN LET items == IF "items" \in DOMAIN schema1 /\ "items" \in DOMAIN schema2
                      THEN merge_schemas(schema1.items, schema2.items)
                      ELSE Get(schema1, "items", AnySchema)
         IN IF IsError(items) THEN KeyError
            ELSE [type |-> "array", items |-> items]
    ELSE [type |-> schema1.type]

\* merged_schema after the loop over item_schemas[1:]
RECURSIVE MergeItems(_, _)
MergeItems(item_schemas, n) ==
    IF n = 1 THEN item_schemas[1]
    ELSE merge_schemas(MergeItems(item_schemas, n - 1), item_schemas[n])

\* re.match(r'^\d{4}-\d{2}-\d{2}T\d{2}:\d{2}:\d{2}', data)
IsDateTime(v) ==
    /\ Len(v) >= 19
    /\ \A k \in 1..19 :
          IF k \in {5, 8} THEN v[k] = "-"
          ELSE IF k = 11 THEN v[k] = "T"
          ELSE IF k \in {14, 17} THEN v[k] = ":"
          ELSE v[k] \in Digits

\* re.match(r'^[\w\.-]+@[\w\.-]+\.\w+$', data)
IsEmail(v) ==
    \E at \in 1..Len(v) : \E dot \in (at + 1)..Len(v) :
        /\ v[at] = "@"
        /\ v[dot] = "."
        /\ at > 1
        /\ \A k \in 1..(at - 1) : v[k] \in WordChars \cup {".", "-"}
        /\ dot > at + 1
        /\ \A k \in (at + 1)..(dot - 1) : v[k] \in WordChars \cup {".", "-"}
        /\ dot < Len(v)
        /\ \A k \in (dot + 1)..Len(v) : v[k] \in WordChars

\* re.match(r'^https?://', data)
IsUri(v) ==
    \/ Len(v) >= 7 /\ SubSeq(v, 1, 7) = <<"h", "t", "t", "p", ":", "/", "/">>
    \/ Len(v) >= 8 /\ SubSeq(v, 1, 8) = <<"h", "t", "t", "p", "s", ":", "/", "/">>

\* the schema of a str
StringSchema(v) ==
    LET schema == [type |-> "string",
                   example |-> IF Len(v) > 100 THEN SubSeq(v, 1, 100) ELSE v]
    IN IF IsDateTime(v) THEN Put(schema, "format", "date-time")
       ELSE IF IsEmail(v) THEN Put(schema, "format", "email")
       ELSE IF IsUri(v) THEN Put(schema, "format", "uri")
       ELSE schema

\* variant: no cap on the depth
RECURSIVE extract_schema_no_cap(_, _)
extract_schema_no_cap(data, depth) ==
    IF data.t = "null" THEN [type |-> "null", nullable |-> TRUE]
    ELSE IF data.t = "bool" THEN [type |-> "boolean", example |-> data.v]
    ELSE IF data.t = "int" THEN [type |-> "integer", example |-> data.v]
    ELSE IF data.t = "float" THEN [type |-> "number", example |-> data.v]
    ELSE IF data.t = "str" THEN StringSchema(data.v)
    ELSE IF data.t = "list"
    THEN IF data.items = <<>> THEN [type |-> "array", items |-> AnySchema]
         ELSE LET item_schemas == [k \in 1..Len(Take(data.items, 10)) |->
                                     extract_schema_no_cap(data.items[k], depth + 1)]
              IN [type |-> "array", items |-> MergeItems(item_schemas, Len(item_schemas))]
    ELSE [type |-> "object",
          properties |-> [key \in Range(data.keys) |->
                            extract_schema_no_cap(data.vals[key], depth + 1)],
          required |-> SelectSeq(data.keys, LAMBDA key : data.vals[key].t # "null")]

\* _extract_schema(data, depth)
RECURSIVE extract_schema(_, _)
extract_schema(data, depth) ==
    IF depth > 10 THEN AnySchema
    ELSE IF data.t = "null" THEN [type |-> "null", nullable |-> TRUE]
    ELSE IF data.t = "bool" THEN [type |-> "boolean", example |-> data.v]
    ELSE IF data.t = "int" THEN [type |-> "integer", example |-> data.v]
    ELSE IF data.t = "float" THEN [type |-> "number", example |-> data.v]
    ELSE IF data.t = "str" THEN StringSchema(data.v)
    ELSE IF data.t = "list"
    THEN IF data.items = <<>> THEN [type |-> "array", items |-> AnySchema]
         ELSE LET first == IF Len(data.items) > 10 THEN SubSeq(data.items, 1, 10)
                           ELSE data.items
                  item_schemas == [k \in 1..Len(first) |->
                                     extract_schema(first[k], depth + 1)]
              IN [type |-> "array", items |-> MergeItems(item_schemas, Len(item_schemas))]
    ELSE IF data.t = "dict"
    THEN [type |-> "object",
          properties |-> [key \in Range(data.keys) |->
                            extract_schema(data.vals[key], depth + 1)],
          required |-> SelectSeq(data.keys, LAMBDA key : data.vals[key].t # "null")]
    ELSE AnySchema

\* _merge_schema(target, source): the new content of target, and the
\* _merge_schemas call it made, if any.  A KeyError leaves target as it was.
merge_schema(target, source) ==
    IF target = EmptyDict
    THEN [target |-> source, merge |-> [called |-> FALSE]]
    ELSE LET merged == merge_schemas(target, source)
         IN [target |-> IF IsError(merged) THEN target ELSE merged,
             merge |-> [called |-> TRUE, schema1 |-> target, schema2 |-> source,
                        result |-> merged]]

----------------------------------------------------------------------------
(* TrafficParser: processing one request/response pair *)

\* int(value) succeeds: an optional sign and digits, single underscores allowed
\* between digits (values here carry no surrounding whitespace)
IsIntLiteral(v) ==
    LET d == IF v # <<>> /\ v[1] \in {"+", "-"} THEN Tail(v) ELSE v
    IN /\ d # <<>>
       /\ \A k \in 1..Len(d) : d[k] \in Digits \cup {"_"}
       /\ d[1] \in Digits /\ d[Len(d)] \in Digits
       /\ \A k \in 1..(Len(d) - 1) : ~(d[k] = "_" /\ d[k + 1] = "_")

\* float(value) succeeds where int(value) did not: digits around one decimal
\* point, or one of the words inf, infinity, nan (values here carry no exponent)
IsFloatLiteral(v) ==
    LET d == IF v # <<>> /\ v[1] \in {"+", "-"} THEN Tail(v) ELSE v
    IN \/ Lower(d) \in { <<"i", "n", "f">>, <<"n", "a", "n">>,
                         <<"i", "n", "f", "i", "n", "i", "t", "y">> }
       \/ /\ Cardinality({k \in 1..Len(d) : d[k] = "."}) = 1
          /\ \A k \in 1..Len(d) : d[k] \in Digits \cup {"."}
          /\ Len(d) > 1

\* _infer_type(value) for a str, which is what query strings and headers hold
infer_type(v) ==
    IF Lower(v) \in {<<"t", "r", "u", "e">>, <<"f", "a", "l", "s", "e">>} THEN "boolean"
    ELSE IF IsIntLiteral(v) THEN "integer"
    ELSE IF IsFloatLiteral(v) THEN "number"
    ELSE "string"

\* bool(value) of a decoded JSON value
Truthy(value) ==
    IF value.t = "null" THEN FALSE
    ELSE IF value.t = "bool" THEN value.v = <<"t", "r", "u", "e">>
    ELSE IF value.t = "int" THEN value.v # <<"0">>
    ELSE IF value.t = "float" THEN value.v # <<"0", ".", "0">>
    ELSE IF value.t = "str" THEN value.v # <<>>
    ELSE IF value.t = "list" THEN value.items # <<>>
    ELSE value.keys # <<>>


\* request.get('body') is truthy
HasBody(msg) ==
    /\ "body" \in DOMAIN msg
    /\ msg.body.kind = "object" => Truthy(msg.body.json)

\* json.loads(body) if isinstance(body, str) else body does not raise
Decodes(body) == body.kind # "garbage"

\* the query_params dict after the loop over parse_qs(parsed_url.query); query
\* holds the (name, value) pairs of the query string in order
RECURSIVE AddQueryParams(_, _, _)
AddQueryParams(params, query, i) ==
    IF i > Len(query) THEN params
    ELSE AddQueryParams(
           IF query[i].name \in DOMAIN params THEN params
           ELSE Put(params, query[i].name, infer_type(query[i].value)),
           query, i + 1)

\* header names that are never recorded
SkippedHeaders ==
    { <<"c", "o", "o", "k", "i", "e">>,
      <<"a", "u", "t", "h", "o", "r", "i", "z", "a", "t", "i", "o", "n">>,
      <<"x", "-", "r", "e", "q", "u", "e", "s", "t", "-", "i", "d">> }

\* the headers dict after the loop over the request's headers
RECURSIVE AddHeaders(_, _, _)
AddHeaders(known, headers, i) ==
    IF i > Len(headers) THEN known
    ELSE AddHeaders(
           IF Lower(headers[i].name) \in SkippedHeaders \/ headers[i].name \in DOMAIN known
           THEN known
           ELSE Put(known, headers[i].name, infer_type(headers[i].value)),
           headers, i + 1)

\* APIEndpoint(method=..., path_pattern=..., path_params=...)
APIEndpoint(method, path_pattern, path_params) ==
    [method |-> method, path_pattern |-> path_pattern, path_params |-> path_params,
     query_params |-> EmptyDict, headers |-> EmptyDict,
     request_body_schema |-> EmptyDict, response_schemas |-> EmptyDict,
     examples |-> <<>>]

\* urlparse('')
NoUrl == [scheme |-> <<>>, netloc |-> <<>>, path |-> <<>>, query |-> <<>>]

\* no _merge_schemas call was made
NoMerge(target) == [target |-> target, merge |-> [called |-> FALSE]]

\* a _merge_schema call left the handler with a KeyError
Raised(m) == m.merge.called /\ IsError(m.merge.result)

\* the end of the handler: the example is appended unless a merge raised, and
\* the endpoint object, which is the one held in self.endpoints, keeps
\* whatever was written to it before
store_example(eps, base, last, key, url, request, response, endpoint, reqMerge, respMerge) ==
    [endpoints |-> Put(eps, key,
                       IF Raised(reqMerge) \/ Raised(respMerge) THEN endpoint
                       ELSE [endpoint EXCEPT
                               !.examples = Append(@, [request |-> request,
                                                       response |-> response])]),
     base_url |-> IF base = <<>> THEN url.scheme \o <<":", "/", "/">> \o url.netloc
                  ELSE base,
     lastMerge |-> IF respMerge.merge.called THEN respMerge.merge
                   ELSE IF reqMerge.merge.called THEN reqMerge.merge
                   ELSE last]

\* the response schema is merged into response_schemas[status]
store_response_schema(eps, base, last, key, url, request, response, endpoint, reqMerge, status, respMerge) ==
    store_example(eps, base, last, key, url, request, response,
                  [endpoint EXCEPT !.response_schemas = Put(@, status, respMerge.target)],
                  reqMerge, respMerge)

\* if response.get('body'): decode it and merge its schema
process_response_body(eps, base, last, key, url, request, response, endpoint, reqMerge) ==
    IF ~Raised(reqMerge) /\ HasBody(response) /\ Decodes(response.body)
    THEN store_response_schema(eps, base, last, key, url, request, response, endpoint,
                               reqMerge, Get(response, "status", 200),
                               merge_schema(Get(endpoint.response_schemas,
                                                Get(response, "status", 200), EmptyDict),
                                            extract_schema(response.body.json, 0)))
    ELSE store_example(eps, base, last, key, url, request, response, endpoint,
                       reqMerge, NoMerge(EmptyDict))

\* the request schema is merged into request_body_schema
store_request_schema(eps, base, last, key, url, request, response, endpoint, reqMerge) ==
    process_response_body(eps, base, last, key, url, request, response,
                          [endpoint EXCEPT !.request_body_schema = reqMerge.target],
                          reqMerge)

\* if request.get('body'): decode it and merge its schema
process_request_body(eps, base, last, key, url, request, response, endpoint) ==
    store_request_schema(eps, base, last, key, url, request, response, endpoint,
                         IF HasBody(request) /\ Decodes(request.body)
                         THEN merge_schema(endpoint.request_body_schema,
                                           extract_schema(request.body.json, 0))
                         ELSE NoMerge(endpoint.request_body_schema))

\* the endpoint of the key, created if new, with this request's query
\* parameters and headers added
process_endpoint(eps, base, last, key, url, method, request, response, pp) ==
    process_request_body(eps, base, last, key, url, request, response,
        [(IF key \in DOMAIN eps THEN eps[key]
          ELSE APIEndpoint(method, pp.pattern, pp.params)) EXCEPT
            !.query_params = AddQueryParams(@, url.query, 1),
            !.headers = AddHeaders(@, Get(request, "headers", <<>>), 1)])

\* endpoint_key = f"{method}:{path_pattern}"
parser_endpoint_key(eps, base, last, url, method, request, response, pp) ==
    process_endpoint(eps, base, last, method \o <<":">> \o pp.pattern,
                     url, method, request, response, pp)

\* the request's url (held as urlparse splits it), method and path pattern
process_url(eps, base, last, url, request, response) ==
    parser_endpoint_key(eps, base, last, url, Get(request, "method", <<"G", "E", "T">>),
                        request, response, extract_path_pattern(url.path))

\* _process_raw_request_response(data): the parser's endpoints, base_url and
\* last _merge_schemas call afterwards
process_raw_request_response(eps, base, last, data) ==
    process_url(eps, base, last,
                Get(Get(data, "request", EmptyDict), "url", NoUrl),
                Get(data, "request", EmptyDict),
                Get(data, "response", EmptyDict))

----------------------------------------------------------------------------
(* Traffic handed to TrafficParser *)

SegTok123x == <<"t", "o", "k", "1", "2", "3", "x">>
ObjectIdLower == <<"5","0","7","f","1","f","7","7","b","c","f","8","6","c","d","7","9","9","4","3","9","0","1","1">>
UuidUpper == <<"A","5","0","E","8","4","0","0","-","E","2","9","B","-","4","1","D","4","-","A","7","1","6","-","4","4","6","6","5","5","4","4","0","0","0","0">>

Https == <<"h", "t", "t", "p", "s">>
ApiHost == <<"a", "p", "i", ".", "x", ".", "i", "o">>
Url(path, query) == [scheme |-> Https, netloc |-> ApiHost, path |-> path, query |-> query]

\* a request without a body, answered without a body
PlainRequest(method, path) ==
    [request |-> [url |-> Url(path, <<>>), method |-> method, headers |-> <<>>],
     response |-> [status |-> 200]]

\* requests that differ in their path
PathRequests ==
    { PlainRequest(MGet, PathOf(<<SegUsers>>)),
      PlainRequest(MGet, PathOf(<<SegUsers, Seg123>>)),
      PlainRequest(MGet, PathOf(<<SegUsers, Seg456>>)),
      PlainRequest(MGet, PathOf(<<SegUsers, UuidLetterFirst>>)),
      PlainRequest(MGet, PathOf(<<SegUsers, ObjectIdLower>>)),
      PlainRequest(MGet, PathOf(<<SegUsers, SegTok123x>>)),
      PlainRequest(MGet, PathOf(<<Seg123, SegTok123x>>)),
      PlainRequest(MGet, PathOf(<<SegUsers, UuidUpper, SegTok123x>>)),
      PlainRequest(MGet, PathOf(<<SegUsers, [k \in 1..24 |-> UpperChar(ObjectIdLower[k])]>>)),
      PlainRequest(MGet, PathOf(<<SegUsers, Seg1a>>)),
      PlainRequest(MGet, PathOf(<<SegUsers, SegTok123x, SegPosts, SegTok123x>>)) }


\* the property names of the samples
PropNames == {"name", "age"}

\* a POST /users that carries a JSON body as text
BodyRequest(body) ==
    [request |-> [url |-> Url(PathOf(<<SegUsers>>), <<[name |-> "limit", value |-> <<"1", "0">>]>>),
                  method |-> MPost,
                  headers |-> <<[name |-> <<"A", "c", "c", "e", "p", "t">>, value |-> <<"j", "s", "o", "n">>],
                                [name |-> <<"C", "o", "o", "k", "i", "e">>, value |-> <<"1">>]>>,
                  body |-> body],
     response |-> [status |-> 201]]

\* a GET /users answered with a JSON body
ResponseRequest(body) ==
    [request |-> [url |-> Url(PathOf(<<SegUsers>>), <<>>), method |-> MGet, headers |-> <<>>],
     response |-> [status |-> 200, body |-> body]]

\* requests to one endpoint that differ in their bodies
BodyRequests ==
    { BodyRequest(TextBody(v)) :
        v \in {BodyNameX, BodyNameYAge5, BodyName7, BodyAgeNull, BodyNested5,
               BodyNestedX, BodyList5, BodyListX5, BodyListObj, Val5} }
    \cup { BodyRequest(GarbageBody), BodyRequest(ObjectBody(JDict(<<>>, EmptyDict))) }
    \cup { ResponseRequest(TextBody(BodyNameX)), ResponseRequest(TextBody(BodyNameYAge5)) }

\* requests whose paths hold an opaque token after a literal, a numeric id or
\* a UUID
TokenRequests ==
    { PlainRequest(MGet, PathOf(segs)) :
        segs \in { <<SegUsers, SegTok123x>>,
                   <<SegUsers, <<"a", "b", "c", "4", "5", "6", "y">>>>,
                   <<SegUsers, Seg123, SegTok123x>>,
                   <<SegUsers, Seg456, SegTok123x>>,
                   <<SegUsers, UuidLetterFirst, SegTok123x>>,
                   <<SegUsers, UuidDigitFirst, SegTok123x>> } }

\* the value 5 under n levels of objects, and under n levels of lists
RECURSIVE NestedObject(_)
NestedObject(n) ==
    IF n = 0 THEN Val5 ELSE JDict(<<"name">>, [name |-> NestedObject(n - 1)])
RECURSIVE NestedList(_)
NestedList(n) == IF n = 0 THEN Val5 ELSE JList(<<NestedList(n - 1)>>)

\* requests to one endpoint whose bodies are nested up to and beyond the depth
\* at which _extract_schema stops
NestedRequests ==
    { BodyRequest(TextBody(v)) :
        v \in {NestedObject(10), NestedObject(11), NestedObject(12), NestedList(11),
               NestedList(12), BodyNameX} }

ParserPools == {"paths", "bodies", "tokens", "nested"}
RequestPool(pl) ==
    IF pl = "paths" THEN PathRequests
    ELSE IF pl = "bodies" THEN BodyRequests
    ELSE IF pl = "tokens" THEN TokenRequests
    ELSE NestedRequests

----------------------------------------------------------------------------
(* The parser as a state machine: parse_raw_traffic processes the requests   *)
(* one after the other                                                      *)

NoAnalyzerState ==
    /\ calls = <<>>
    /\ phase = "capturing"
    /\ endpoint_groups = <<>>
    /\ apiSpec = [kind |-> "none"]
    /\ sdks = <<>>

InitParser ==
    /\ pool \in ParserPools
    /\ endpoints = EmptyDict
    /\ base_url = <<>>
    /\ hashOrder \in {<<"name", "age">>, <<"age", "name">>}
    /\ lastMerge = [called |-> FALSE]
    /\ processed = 0
    /\ NoAnalyzerState

\* TrafficParser._process_raw_request_response(data)
ProcessRequest(data) ==
    /\ processed < MaxRequests
    /\ LET after == process_raw_request_response(endpoints, base_url, lastMerge, data)
       IN /\ endpoints' = after.endpoints
          /\ base_url' = after.base_url
          /\ lastMerge' = after.lastMerge
    /\ processed' = processed + 1
    /\ UNCHANGED <<pool, hashOrder, analyzerVars>>

NextParser == \E data \in RequestPool(pool) : ProcessRequest(data)

SpecParser == InitParser /\ [][NextParser]_vars

----------------------------------------------------------------------------
(* _merge_schemas called on its own, on any two schemas *)

\* schemas handed to _merge_schemas: those _extract_schema gives for the
\* sample bodies, and array schemas that say nothing about their items
MergeOperands ==
    { extract_schema(v, 0) :
        v \in {Val5, ValX, BodyNameX, BodyNameYAge5, BodyList5, BodyListX5, JList(<<>>)} }
    \cup { [type |-> "array"],
           [type |-> "array", items |-> [type |-> "array"]],
           [type |-> "array", items |-> [type |-> "object"]] }

InitMerge ==
    /\ pool = "merge"
    /\ \E schema1 \in MergeOperands, schema2 \in MergeOperands :
          lastMerge = [called |-> FALSE, schema1 |-> schema1, schema2 |-> schema2]
    /\ hashOrder \in {<<"name", "age">>, <<"age", "name">>}
    /\ endpoints = EmptyDict
    /\ base_url = <<>>
    /\ processed = 0
    /\ NoAnalyzerState

\* TrafficParser._merge_schemas(schema1, schema2)
MergeSchemas ==
    /\ ~lastMerge.called
    /\ lastMerge' = [called |-> TRUE,
                     schema1 |-> lastMerge.schema1,
                     schema2 |-> lastMerge.schema2,
                     result |-> merge_schemas(lastMerge.schema1, lastMerge.schema2)]
    /\ UNCHANGED <<pool, hashOrder, endpoints, base_url, processed, analyzerVars>>

SpecMerge == InitMerge /\ [][MergeSchemas]_vars

----------------------------------------------------------------------------
(* Properties of TrafficParser *)

\* values substituted for placeholders
DigitStrings == {<<"7">>, Seg456}
CanonicalUuids == {UuidDigitFirst, UuidLetterFirst}

\* a pattern with every {id} segment replaced by d and every {uuid} segment by u
Concretized(pattern, d, u) ==
    LET segs == Split(pattern, "/")
    IN Join([k \in 1..Len(segs) |->
               IF segs[k] = Braced(<<"i", "d">>) THEN d
               ELSE IF segs[k] = Braced(<<"u", "u", "i", "d">>) THEN u
               ELSE segs[k]],
            "/")

\* C7: for every pattern P that _extract_path_pattern returned for a processed
\* path, replacing each {id} of P by a digit string and each {uuid} by a
\* canonical UUID and extracting the pattern of that path gives P again.
C7_PatternRoundTrip ==
    \A key \in DOMAIN endpoints :
        \A d \in DigitStrings : \A u \in CanonicalUuids :
            extract_path_pattern(Concretized(endpoints[key].path_pattern, d, u)).pattern
                = endpoints[key].path_pattern

\* the last _merge_schemas call was on two object schemas
MergedObjects ==
    /\ lastMerge.called
    /\ lastMerge.schema1.type = "object"
    /\ lastMerge.schema2.type = "object"

\* C8: _merge_schemas on two object schemas returns an object whose property
\* keys are the union of the operands' keys; a key of both holds the merge of
\* the two property schemas, a key of one operand holds that operand's
\* property schema marked nullable ({name: string} merged with {name: string,
\* age: integer} gives name: string and age: integer, nullable).
C8_ObjectMerge ==
    MergedObjects =>
        LET p1 == lastMerge.schema1.properties
            p2 == lastMerge.schema2.properties
            r == lastMerge.result
        IN /\ ~IsError(r)
           /\ r.type = "object"
           /\ DOMAIN r.properties = DOMAIN p1 \cup DOMAIN p2
           /\ \A k \in DOMAIN p1 \cap DOMAIN p2 :
                 r.properties[k] = merge_schemas(p1[k], p2[k])
           /\ \A k \in DOMAIN p1 \ DOMAIN p2 :
                 r.properties[k] = Put(p1[k], "nullable", TRUE)
           /\ \A k \in DOMAIN p2 \ DOMAIN p1 :
                 r.properties[k] = Put(p2[k], "nullable", TRUE)
           /\ ( /\ lastMerge.schema1 = extract_schema(BodyNameX, 0)
                /\ lastMerge.schema2 = extract_schema(BodyNameYAge5, 0) )
              => r.properties =
                    [name |-> [type |-> "string"],
                     age |-> [type |-> "integer", example |-> <<"5">>, nullable |-> TRUE]]

\* {"name": "X"} was merged with {"name": "Y", "age": 5}
C8_Witness ==
    /\ MergedObjects
    /\ lastMerge.schema1 = extract_schema(BodyNameX, 0)
    /\ lastMerge.schema2 = extract_schema(BodyNameYAge5, 0)
    /\ DOMAIN lastMerge.result.properties = {"name", "age"}

\* wherever the type tags of the two operands differ, at the top or at a
\* property or array item the recursion reaches, the result there is {type: any}
RECURSIVE ConflictsWidened(_, _, _)
ConflictsWidened(s1, s2, r) ==
    IF s1.type # s2.type THEN r = AnySchema
    ELSE IF s1.type = "object"
    THEN /\ r.type = "object"
         /\ \A k \in DOMAIN s1.properties \cap DOMAIN s2.properties :
               ConflictsWidened(s1.properties[k], s2.properties[k], r.properties[k])
    ELSE IF s1.type = "array" /\ "items" \in DOMAIN s1 /\ "items" \in DOMAIN s2
    THEN r.type = "array" /\ ConflictsWidened(s1.items, s2.items, r.items)
    ELSE TRUE

\* C9: _merge_schemas raises no error on conflicting input, and at every
\* position where the type tags differ the result is the schema {type: any}.
C9_ConflictsBecomeAny ==
    lastMerge.called =>
        /\ ~IsError(lastMerge.result)
        /\ ConflictsWidened(lastMerge.schema1, lastMerge.schema2, lastMerge.result)

\* two objects were merged whose property name is a string in one and an
\* integer in the other
C9_Witness ==
    /\ MergedObjects
    /\ "name" \in DOMAIN lastMerge.schema1.properties
    /\ "name" \in DOMAIN lastMerge.schema2.properties
    /\ lastMerge.schema1.properties["name"].type = "string"
    /\ lastMerge.schema2.properties["name"].type = "integer"
    /\ lastMerge.result.properties["name"] = AnySchema

\* C10: merging a schema that _extract_schema produced with itself gives that
\* schema again.
C10_MergeIdempotent ==
    (lastMerge.called /\ lastMerge.schema1 = lastMerge.schema2)
        => lastMerge.result = lastMerge.schema1

\* every example of the endpoint carried a request body that was decoded and
\* merged into request_body_schema
AllBodiesMerged(ep) ==
    \A k \in 1..Len(ep.examples) :
        HasBody(ep.examples[k].request) /\ Decodes(ep.examples[k].request.body)

\* the schema _extract_schema gave for the request body of the k-th example
BodySchema(ep, k) == extract_schema(ep.examples[k].request.body.json, 0)

\* C11: _merge_schemas is associative on schemas _extract_schema produced: an
\* endpoint's request_body_schema after three bodies a, b, c, which is
\* merge(merge(a, b), c), equals merge(a, merge(b, c)), nullable marks
\* included.
C11_MergeAssociative ==
    \A key \in DOMAIN endpoints :
        LET ep == endpoints[key]
        IN (Len(ep.examples) = 3 /\ AllBodiesMerged(ep))
              => ep.request_body_schema
                   = merge_schemas(BodySchema(ep, 1),
                                   merge_schemas(BodySchema(ep, 2), BodySchema(ep, 3)))

\* the segment the pattern must hold for a path segment under the rules
\* numeric, UUID in any letter case, 24 hex characters, opaque token, literal,
\* the first that applies
ClassifiedAs(seg, pat) ==
    IF seg = <<>> THEN pat = <<>>
    ELSE IF \A k \in 1..Len(seg) : seg[k] \in Digits THEN pat = Braced(<<"i", "d">>)
    ELSE IF Len(seg) = 36 /\ UuidShapeAt(seg, 1, HexAnyCase)
    THEN pat = Braced(<<"u", "u", "i", "d">>)
    ELSE IF Len(seg) = 24 /\ \A k \in 1..24 : seg[k] \in HexAnyCase
    THEN pat = Braced(<<"o", "b", "j", "e", "c", "t", "I", "d">>)
    ELSE IF Len(seg) > 5 /\ \E k \in 1..Len(seg) : seg[k] \in Digits
    THEN pat # <<>> /\ pat[1] = "{" /\ pat[Len(pat)] = "}"
    ELSE pat = seg

\* C18: _extract_path_pattern classifies every non-empty segment by the first
\* rule that applies: purely numeric -> {id}; canonical UUID in any letter
\* case -> {uuid}; exactly 24 hex characters -> {objectId}; a digit and more
\* than 5 characters -> a context-derived placeholder; otherwise the segment
\* is kept.
C18_SegmentClasses ==
    \A key \in DOMAIN endpoints :
        \A j \in 1..Len(endpoints[key].examples) :
            LET segs == Split(endpoints[key].examples[j].request.url.path, "/")
                pats == Split(endpoints[key].path_pattern, "/")
            IN /\ Len(pats) = Len(segs)
               /\ \A k \in 1..Len(segs) : ClassifiedAs(segs[k], pats[k])

\* an opaque token: a digit, more than 5 characters, and none of the classes
\* numeric, UUID, 24 hex characters
IsOpaqueToken(seg) ==
    /\ Len(seg) > 5
    /\ \E k \in 1..Len(seg) : seg[k] \in Digits
    /\ ~(\A k \in 1..Len(seg) : seg[k] \in Digits)
    /\ ~(Len(seg) = 36 /\ UuidShapeAt(seg, 1, HexAnyCase))
    /\ ~(Len(seg) = 24 /\ \A k \in 1..24 : seg[k] \in HexAnyCase)

\* a neighbour a name can be taken from
UsableSegment(seg) == seg # <<>> /\ seg[1] # "{"

\* the singular of a plural noun in -s
Singularized(seg) ==
    IF Len(seg) > 1 /\ seg[Len(seg)] = "s" THEN SubSeq(seg, 1, Len(seg) - 1) ELSE seg

\* the name of the placeholder for the opaque token at position k: taken from
\* the segment before it, else from the segment after it, else id
ContextName(segs, k) ==
    IF k > 1 /\ UsableSegment(segs[k - 1]) THEN Singularized(segs[k - 1]) \o <<"I", "d">>
    ELSE IF k < Len(segs) /\ UsableSegment(segs[k + 1]) THEN segs[k + 1] \o <<"I", "d">>
    ELSE <<"i", "d">>

\* C19: the placeholder of an opaque-token segment is named after the
\* singularized previous segment plus 'Id' (/users/<token> gives
\* /users/{userId}), else after the next segment plus 'Id', else {id}; the
\* neighbours are those of that occurrence of the token, also when the token
\* occurs more than once in the path.
C19_ContextNames ==
    \A key \in DOMAIN endpoints :
        \A j \in 1..Len(endpoints[key].examples) :
            LET segs == Split(endpoints[key].examples[j].request.url.path, "/")
                pats == Split(endpoints[key].path_pattern, "/")
            IN \A k \in 1..Len(segs) :
                  IsOpaqueToken(segs[k])
                     => k <= Len(pats) /\ pats[k] = Braced(ContextName(segs, k))

ObjectBodies(ep) ==
    /\ ep.examples # <<>>
    /\ AllBodiesMerged(ep)
    /\ \A k \in 1..Len(ep.examples) : ep.examples[k].request.body.json.t = "dict"

\* the left fold of _merge_schemas over the body schemas taken in the order f
RECURSIVE FoldBodies(_, _, _)
FoldBodies(ep, f, n) ==
    IF n = 1 THEN BodySchema(ep, f[1])
    ELSE merge_schemas(FoldBodies(ep, f, n - 1), BodySchema(ep, f[n]))

\* the fields every sample has
CommonFields(ep) ==
    {p \in PropNames :
        \A k \in 1..Len(ep.examples) : p \in DOMAIN BodySchema(ep, k).properties}

\* the samples' type tags of a field
FieldTags(ep, p) ==
    {BodySchema(ep, k).properties[p].type : k \in 1..Len(ep.examples)}

\* the tag all samples agree on, any otherwise
ExpectedTag(ep, p) ==
    IF Cardinality(FieldTags(ep, p)) = 1 THEN CHOOSE t \in FieldTags(ep, p) : TRUE
    ELSE "any"

\* C21: for the object bodies an endpoint has folded and every permutation of
\* them, the left fold of _merge_schemas gives every field that all samples
\* have the same type tag: the common tag if the samples agree, any otherwise;
\* the endpoint's request_body_schema, the fold in arrival order, has it too.
C21_FoldOrderKeepsTags ==
    \A key \in DOMAIN endpoints :
        LET ep == endpoints[key]
            n == Len(ep.examples)
        IN ObjectBodies(ep) =>
              \A p \in CommonFields(ep) :
                 /\ ep.request_body_schema.properties[p].type = ExpectedTag(ep, p)
                 /\ \A f \in Perms(n) :
                       FoldBodies(ep, f, n).properties[p].type = ExpectedTag(ep, p)

\* three objects were folded whose field name is a string, an integer and a
\* string again, and the schema holds any for it
C21_Witness ==
    \E key \in DOMAIN endpoints :
        LET ep == endpoints[key]
        IN /\ ObjectBodies(ep)
           /\ Len(ep.examples) = 3
           /\ BodySchema(ep, 1).properties["name"].type = "string"
           /\ BodySchema(ep, 2).properties["name"].type = "integer"
           /\ BodySchema(ep, 3).properties["name"].type = "string"
           /\ ep.request_body_schema.properties["name"].type = "any"

\* C27: after the object bodies of an endpoint's samples were folded into its
\* schema, every property that at least one of the samples lacks is marked
\* nullable in the schema, also when a later sample has the property again.
C27_NullableKept ==
    \A key \in DOMAIN endpoints :
        LET ep == endpoints[key]
        IN ObjectBodies(ep) =>
              \A p \in DOMAIN ep.request_body_schema.properties :
                 (\E k \in 1..Len(ep.examples) : p \notin DOMAIN BodySchema(ep, k).properties)
                    => /\ "nullable" \in DOMAIN ep.request_body_schema.properties[p]
                       /\ ep.request_body_schema.properties[p].nullable

\* the class of a path segment: numeric, UUID, 24 hex characters, opaque
\* token, or literal
SegmentClass(seg) ==
    IF seg = <<>> THEN "empty"
    ELSE IF \A k \in 1..Len(seg) : seg[k] \in Digits THEN "numeric"
    ELSE IF Len(seg) = 36 /\ UuidShapeAt(seg, 1, HexAnyCase) THEN "uuid"
    ELSE IF Len(seg) = 24 /\ \A k \in 1..24 : seg[k] \in HexAnyCase THEN "hex24"
    ELSE IF IsOpaqueToken(seg) THEN "token"
    ELSE "literal"

\* two paths with the same number of segments, equal literal segments and
\* volatile segments of the same class at the same positions
SameShape(p, q) ==
    LET sp == Split(p, "/")
        sq == Split(q, "/")
    IN /\ Len(sp) = Len(sq)
       /\ \A k \in 1..Len(sp) :
             /\ SegmentClass(sp[k]) = SegmentClass(sq[k])
             /\ SegmentClass(sp[k]) = "literal" => sp[k] = sq[k]

\* C28: two processed requests of the same method whose paths differ only in
\* the values of their volatile segments have the same pattern and belong to
\* the same endpoint, also when an opaque token follows a numeric id or a
\* UUID.
C28_ValueIndependentPattern ==
    \A key1, key2 \in DOMAIN endpoints :
        \A i \in 1..Len(endpoints[key1].examples) :
            \A j \in 1..Len(endpoints[key2].examples) :
                ( /\ endpoints[key1].method = endpoints[key2].method
                  /\ SameShape(endpoints[key1].examples[i].request.url.path,
                               endpoints[key2].examples[j].request.url.path) )
                   => /\ key1 = key2
                      /\ endpoints[key1].path_pattern = endpoints[key2].path_pattern

\* the schema follows the value down to nesting level 10 and is {type: any}
\* for whatever lies deeper; level is the nesting level of value
RECURSIVE CappedAt(_, _, _)
CappedAt(value, schema, level) ==
    IF level > 10 THEN schema = AnySchema
    ELSE IF value.t = "dict"
    THEN /\ schema.type = "object"
         /\ DOMAIN schema.properties = Range(value.keys)
         /\ \A key \in Range(value.keys) :
               CappedAt(value.vals[key], schema.properties[key], level + 1)
    ELSE IF value.t = "list"
    THEN /\ schema.type = "array"
         /\ Len(value.items) = 1 => CappedAt(value.items[1], schema.items, level + 1)
    ELSE schema.type \in {"null", "boolean", "integer", "number", "string"}

\* C25: _extract_schema returns a schema for every JSON value and raises
\* nothing: the schema of a first body follows the value through the nesting
\* levels 0 to 10, and every sub-value nested deeper is represented by
\* {type: any}.
C25_DepthCap ==
    \A key \in DOMAIN endpoints :
        LET ep == endpoints[key]
        IN (Len(ep.examples) = 1 /\ AllBodiesMerged(ep))
              => /\ ~IsError(ep.request_body_schema)
                 /\ CappedAt(ep.examples[1].request.body.json, ep.request_body_schema, 0)

\* the schema n levels of properties named name below schema
RECURSIVE SchemaBelow(_, _)
SchemaBelow(schema, n) ==
    IF n = 0 THEN schema ELSE SchemaBelow(schema, n - 1).properties["name"]

\* a body of twelve nested objects was processed: its schema has an object at
\* level 10 and {type: any} at level 11
C25_Witness ==
    \E key \in DOMAIN endpoints :
        LET ep == endpoints[key]
        IN /\ Len(ep.examples) = 1
           /\ AllBodiesMerged(ep)
           /\ ep.examples[1].request.body = TextBody(NestedObject(12))
           /\ SchemaBelow(ep.request_body_schema, 10).type = "object"
           /\ SchemaBelow(ep.request_body_schema, 11) = AnySchema

====
